---------------------------- MODULE Spec2Model ----------------------------
(***************************************************************************)
(* vis-capture: the audio capture / analysis daemon of the Clear Spotify   *)
(* theme (Linux build: PulseAudio source, POSIX sockets).                  *)
(*                                                                         *)
(*   WsServer   src/native/common/ws_server.h   single-client WebSocket    *)
(*   processor  src/native/common/fft.h         smoothing, gravity, AGC    *)
(*   main       src/unnamed/part_007 (1..287)   control plane, main loop   *)
(*                                                                         *)
(* Text is modelled as sequences of bytes (ASCII codes), sockets as byte   *)
(* streams, floats as fixed-point integers (unit 1/Q).  The FFT itself is  *)
(* not computed: the magnitude each bar sees is an input of the frame.     *)
(***************************************************************************)
EXTENDS Integers, Sequences, FiniteSets

\* ------------------------------------------------------------------ bounds
MaxConns     == 2   \* connections peers open during a run
MaxPeerSends == 1   \* chunks of bytes peers write during a run
MaxAudio     == 2   \* audio frames the source delivers during a run
TrackBars    == 1   \* bars of the g_barCount active ones whose state is tracked
PaceAudio    == 3   \* audio frames delivered in a run of the pacing specification
SessionAudio == 3   \* audio frames delivered in a run of the sessions specification
QueueSends   == 3   \* frames the subscriber queues in a run of the queue specification
QueueAudio   == 3   \* audio frames delivered in a run of the queue specification
MaxProcFrames == 1  \* frames processed in a run of the processor specification
ConfigSends  == 2   \* commands the subscriber sends in a run of the settings specification
ConfigAudio  == 3   \* audio frames delivered in a run of the settings specification
ToneFrames   == 10  \* frames of tone at the start of a run of the decay specification
SilentFrames == 60  \* frames of silence that follow them

\* ------------------------------------------------------- program constants
SOCK_INVALID      == -1
BAR_COUNT         == 72
MAX_BAR_COUNT     == 144
FFT_SIZE          == 4096
FRAME_SAMPLES     == 735
FREQ_MAX          == 12000
FREQ_MIN          == 50
SAMPLE_RATE       == 44100
Q                 == 1000    \* fixed-point unit: 1.0f
SMOOTH_ATTACK     == 400     \* 0.4f
SMOOTH_DECAY      == 850     \* 0.85f
GRAVITY           == 4       \* 0.004f
SENS_INIT         == 1000    \* 1.0f
SENS_ATTACK       == 850     \* 0.85f
SENS_RELEASE      == 1002    \* 1.002f
SENS_INIT_BOOST   == 1100    \* 1.1f
SENS_INIT_CAP     == 5000    \* 5.0f
SENS_MIN          == 20      \* 0.02f
SENS_MAX          == 5000    \* 5.0f
SILENCE_THRESHOLD == 10      \* 1e-4f, samples are in units of 1e-5
MAX_PAYLOAD       == 4096    \* inbound payload cap
LEN_SAT           == 1073741824   \* 2^30
HS_BUF            == 4096    \* char buf[4096] of the handshake
DEFAULT_INTERVAL  == 33      \* sendIntervalMs{33}
LISTEN_BACKLOG    == 1       \* listen(listenSock, 1)
TicksPerMs        == 3       \* the clock counts thirds of a millisecond
FrameTicks        == 50      \* FRAME_SAMPLES / SAMPLE_RATE = 1/60 s
SIZEOF_FLOAT      == 4
OP_TEXT           == 129     \* 0x81
OP_BINARY         == 130     \* 0x82
OP_CLOSE_REPLY    == 136     \* 0x88

\* ------------------------------------------------------------ byte strings
\* 'GET_SOURCES'
S_GET_SOURCES == <<71,69,84,95,83,79,85,82,67,69,83>>
\* 'SET_SOURCE:'
S_SET_SOURCE == <<83,69,84,95,83,79,85,82,67,69,58>>
\* 'SET_FPS:'
S_SET_FPS == <<83,69,84,95,70,80,83,58>>
\* 'SET_FREQ_MAX:'
S_SET_FREQ_MAX == <<83,69,84,95,70,82,69,81,95,77,65,88,58>>
\* 'SET_BAR_COUNT:'
S_SET_BAR_COUNT == <<83,69,84,95,66,65,82,95,67,79,85,78,84,58>>
\* '@DEFAULT_MONITOR@'
S_DEFAULT_MONITOR == <<64,68,69,70,65,85,76,84,95,77,79,78,73,84,79,82,64>>
\* '{"fpsChanged":'
S_fpsChanged == <<123,34,102,112,115,67,104,97,110,103,101,100,34,58>>
\* '{"freqMaxChanged":'
S_freqMaxChanged == <<123,34,102,114,101,113,77,97,120,67,104,97,110,103,101,100,34,58>>
\* '{"barCountChanged":'
S_barCountChanged == <<123,34,98,97,114,67,111,117,110,116,67,104,97,110,103,101,100,34,58>>
\* '{"sourceChanged":"'
S_sourceChanged == <<123,34,115,111,117,114,99,101,67,104,97,110,103,101,100,34,58,34>>
\* '{"sourceError":"Failed to connect to source"}'
S_sourceError == <<123,34,115,111,117,114,99,101,69,114,114,111,114,34,58,34,70,97,105,108,101,100,32,116,111,32,99,111,110,110,101,99,116,32,116,111,32,115,111,117,114,99,101,34,125>>
\* 'Sec-WebSocket-Key: '
S_KeyHdr == <<83,101,99,45,87,101,98,83,111,99,107,101,116,45,75,101,121,58,32>>
\* '\r\n'
S_CRLF == <<13,10>>
\* '{"sources":['
S_sourcesOpen == <<123,34,115,111,117,114,99,101,115,34,58,91>>
\* '{"name":"'
S_nameOpen == <<123,34,110,97,109,101,34,58,34>>
\* '","desc":"'
S_descOpen == <<34,44,34,100,101,115,99,34,58,34>>


\* ------------------------------------------------------------- C++ helpers
Min(a, b) == IF a < b THEN a ELSE b
Max(a, b) == IF a > b THEN a ELSE b

\* msg.rfind(prefix, 0) == 0
StartsWith(msg, prefix) ==
    /\ Len(msg) >= Len(prefix)
    /\ SubSeq(msg, 1, Len(prefix)) = prefix

\* msg.substr(n): the bytes after the first n
Substr(msg, n) == SubSeq(msg, n + 1, Len(msg))

IsDigit(c) == c >= 48 /\ c <= 57
IsSpace(c) == c = 32 \/ (c >= 9 /\ c <= 13)

RECURSIVE AtoiDigits(_, _, _)
AtoiDigits(s, i, acc) ==
    IF i > Len(s) \/ ~IsDigit(s[i]) THEN acc
    ELSE AtoiDigits(s, i + 1, acc * 10 + (s[i] - 48))

RECURSIVE SkipSpace(_, _)
SkipSpace(s, i) == IF i <= Len(s) /\ IsSpace(s[i]) THEN SkipSpace(s, i + 1) ELSE i

\* faulty variant: a number followed by anything else is not a number
AtoiWhole(s) ==
    IF s # <<>> /\ \A i \in DOMAIN s : IsDigit(s[i]) THEN AtoiDigits(s, 1, 0) ELSE 0

\* std::atoi: leading white space, an optional sign, then the decimal prefix
Atoi(s) ==
    LET i == SkipSpace(s, 1)
    IN  IF i <= Len(s) /\ s[i] = 45 THEN 0 - AtoiDigits(s, i + 1, 0)
        ELSE IF i <= Len(s) /\ s[i] = 43 THEN AtoiDigits(s, i + 1, 0)
        ELSE AtoiDigits(s, i, 0)

RECURSIVE ToStringNat(_)
ToStringNat(n) ==
    IF n < 10 THEN <<48 + n>> ELSE ToStringNat(n \div 10) \o <<48 + (n % 10)>>

\* std::to_string(int)
StdToString(n) == IF n < 0 THEN <<45>> \o ToStringNat(0 - n) ELSE ToStringNat(n)

\* a ^ b on bytes
RECURSIVE Xor8(_, _)
Xor8(a, b) ==
    IF a = 0 THEN b
    ELSE IF b = 0 THEN a
    ELSE (((a % 2) + (b % 2)) % 2) + 2 * Xor8(a \div 2, b \div 2)

\* strstr(hay + from - 1, needle): index of the first match at or after from, 0 if none
RECURSIVE StrStr(_, _, _)
StrStr(hay, needle, from) ==
    IF from + Len(needle) - 1 > Len(hay) THEN 0
    ELSE IF SubSeq(hay, from, from + Len(needle) - 1) = needle THEN from
    ELSE StrStr(hay, needle, from + 1)

\* ------------------------------------------------------- WebSocket framing
\* A size_t is written as its 8 bytes, most significant first, where the model
\* needs all 64 bits of it.  SizeT(n) is that form of a length below 2^31.
SizeT(n) ==
    <<0, 0, 0, 0, (n \div 16777216) % 256, (n \div 65536) % 256,
      (n \div 256) % 256, n % 256>>

\* len < 126 and len < 65536, of a size_t
Below126(len) == SubSeq(len, 1, 7) = <<0, 0, 0, 0, 0, 0, 0>> /\ len[8] < 126
Below65536(len) == SubSeq(len, 1, 6) = <<0, 0, 0, 0, 0, 0>>

\* the header sendFrame builds for a payload of len bytes, len a size_t:
\* (uint8_t)(len >> 24) is byte 5 of the 8, and so on; the first four bytes
\* of the 64-bit length are left at the memset's zero
SendFrameHeader(opcode, len) ==
    IF Below126(len) THEN <<opcode, len[8]>>
    ELSE IF Below65536(len) THEN <<opcode, 126, len[7], len[8]>>
    ELSE <<opcode, 127, 0, 0, 0, 0, len[5], len[6], len[7], len[8]>>

\* the header sendFrame builds for a payload of len bytes, len below 2^31
FrameHeader(opcode, len) == SendFrameHeader(opcode, SizeT(len))

\* payLen of drainClient, a uint64_t, after the length decode of a frame that
\* starts with hdr: hdr[1] & 0x7F, or the 2 or 8 extension bytes shifted in
PayLen(hdr) ==
    IF hdr[2] % 128 < 126 THEN SizeT(hdr[2] % 128)
    ELSE IF hdr[2] % 128 = 126 THEN <<0, 0, 0, 0, 0, 0, hdr[3], hdr[4]>>
    ELSE SubSeq(hdr, 3, 10)

\* payLen = (payLen << 8) | ext[i], over the extension bytes.  TLC's
\* integers have 32 bits: a length of LEN_SAT or more is kept as LEN_SAT (the
\* code only compares it with 4096).
RECURSIVE BigEndian(_, _, _)
BigEndian(ext, i, acc) ==
    IF i > Len(ext) THEN acc
    ELSE BigEndian(ext, i + 1, IF acc >= LEN_SAT \div 256 THEN LEN_SAT ELSE acc * 256 + ext[i])

\* payload[i] ^= mask[i % 4]
Unmask(payload, mask) ==
    [i \in 1..Len(payload) |-> Xor8(payload[i], mask[((i - 1) % 4) + 1])]

\* drainClient's reads on the byte stream rx of the client socket.
\* res: "none"  nothing to read, the peer is there (EAGAIN)
\*      "block" a recvAll waits for bytes the peer has not written
\*      "drop"  end of stream, truncated frame or oversized payload
\*      "frame" one frame read: opcode, unmasked payload, the bytes left
DrainResult(res, opcode, payload, rest) ==
    [res |-> res, opcode |-> opcode, payload |-> payload, rest |-> rest]

DrainShort(peerOpen) ==
    DrainResult(IF peerOpen THEN "block" ELSE "drop", 0, <<>>, <<>>)

\* faulty variant: the cap on an inbound payload is not enforced
TooLongNever(payLen) == FALSE

\* the safety cap on an inbound payload
TooLong(payLen) == payLen > MAX_PAYLOAD

DrainParse(rx, peerOpen) ==
    IF Len(rx) = 0
    THEN DrainResult(IF peerOpen THEN "none" ELSE "drop", 0, <<>>, <<>>)
    ELSE IF Len(rx) < 2 THEN DrainShort(peerOpen)
    ELSE
      LET opcode == rx[1] % 16
          masked == rx[2] >= 128
          len7   == rx[2] % 128
          extN   == IF len7 = 126 THEN 2 ELSE IF len7 = 127 THEN 8 ELSE 0
          maskN  == IF masked THEN 4 ELSE 0
      IN  IF Len(rx) < 2 + extN THEN DrainShort(peerOpen)
          ELSE
            LET payLen == IF extN = 0 THEN len7
                          ELSE BigEndian(SubSeq(rx, 3, 2 + extN), 1, 0)
                off    == 2 + extN + maskN
            IN  IF Len(rx) < off THEN DrainShort(peerOpen)
                ELSE IF TooLong(payLen) THEN DrainResult("drop", opcode, <<>>, <<>>)
                ELSE IF Len(rx) < off + payLen THEN DrainShort(peerOpen)
                ELSE
                  LET raw  == SubSeq(rx, off + 1, off + payLen)
                      mask == SubSeq(rx, 2 + extN + 1, 2 + extN + 4)
                  IN  DrainResult("frame", opcode,
                                  IF masked THEN Unmask(raw, mask) ELSE raw,
                                  SubSeq(rx, off + payLen + 1, Len(rx)))

\* the frame a client writes: FIN, opcode, 7-bit length, mask, masked payload
ClientFrame(opcode, mask, payload) ==
    <<128 + opcode, 128 + Len(payload)>> \o mask \o Unmask(payload, mask)

\* --------------------------------------------------------------- variables
VARIABLES
    pc,                    \* where main() is
    g_running,             \* the run flag the signal handler clears
    exitCode,              \* main's return value, -1 while it runs
    listenSock,            \* "open" or "invalid"
    clientSock,            \* SOCK_INVALID or the accepted connection
    sockets,               \* the connections: state, inbound bytes, peer
    peerSends,             \* chunks written by peers so far
    tx,                    \* what the server wrote, in order
    currentSource,
    sourceChangeRequested,
    pendingSource,
    sendIntervalMs,
    g_barCount,
    g_freqMax,
    pa,                    \* the pa_simple handle: NullHandle or StreamOn(name)
    wasIdle,
    sinceSend,             \* now - lastSend, in TicksPerMs-ths of a ms
    bars,                  \* the output of the last processFrame
    g_inputBuf,            \* the sliding window, as runs <<sample, count>>
    g_mem,
    g_peak,
    g_fall,
    g_sens,
    g_sensInit,
    nAudio,                \* audio frames delivered so far
    hist                   \* history: what has happened, for the properties

procVars == <<g_inputBuf, g_mem, g_peak, g_fall, g_sens, g_sensInit>>
cfgVars  == <<sendIntervalMs, g_barCount, g_freqMax>>
srcVars  == <<currentSource, sourceChangeRequested, pendingSource, pa>>
netVars  == <<listenSock, clientSock, sockets, tx>>
loopVars == <<wasIdle, sinceSend, bars, nAudio>>
vars == <<pc, g_running, exitCode, peerSends, procVars, cfgVars, srcVars,
          netVars, loopVars, hist>>

\* --------------------------------------------------------------- processor
\* the bars whose state the model tracks
Bars(n) == 1..Min(n, TrackBars)

ZeroBars(n) == [b \in Bars(n) |-> 0]

\* memset(g_inputBuf, 0, ...)
ZeroWindow == << <<0, FFT_SIZE>> >>

\* the first n samples of a window removed
RECURSIVE DropFront(_, _)
DropFront(buf, n) ==
    IF n = 0 \/ buf = <<>> THEN buf
    ELSE IF buf[1][2] <= n THEN DropFront(Tail(buf), n - buf[1][2])
    ELSE << <<buf[1][1], buf[1][2] - n>> >> \o Tail(buf)

\* n samples of value a appended
AppendRun(buf, a, n) ==
    IF buf # <<>> /\ buf[Len(buf)][1] = a
    THEN [buf EXCEPT ![Len(buf)] = <<a, buf[Len(buf)][2] + n>>]
    ELSE Append(buf, <<a, n>>)

\* faulty variant: the window is shifted and the new samples are not copied in
SlideWindowEmpty(buf, a) == AppendRun(DropFront(buf, FRAME_SAMPLES), 0, FRAME_SAMPLES)

\* memmove + memcpy: shift left by FRAME_SAMPLES, append the new samples
SlideWindow(buf, a) == AppendRun(DropFront(buf, FRAME_SAMPLES), a, FRAME_SAMPLES)

Abs(x) == IF x < 0 THEN 0 - x ELSE x

\* a * b on fixed-point operands, rounded to the nearest unit as a float
\* product is rounded to the nearest float
Mul(a, b) == (a * b + Q \div 2) \div Q

ProcState(inputBuf, mem, peak, fall, sens, sensInit) ==
    [inputBuf |-> inputBuf, mem |-> mem, peak |-> peak, fall |-> fall,
     sens |-> sens, sensInit |-> sensInit]

\* ------------------------------------------------------------ bin cutoffs
\* log10f and powf are computed in fixed point to the base 2: logarithms in
\* units of 1/LogUnit, mantissas in units of 1/MantUnit
LogBits  == 12
LogUnit  == 2^LogBits
MantUnit == 2^14

RECURSIVE FloorLog2(_)
FloorLog2(v) == IF v < 2 THEN 0 ELSE 1 + FloorLog2(v \div 2)

\* the k fraction bits of log2 of the mantissa m (MantUnit <= m < 2 * MantUnit)
RECURSIVE LogFrac(_, _)
LogFrac(m, k) ==
    IF k = 0 THEN 0
    ELSE LET sq == (m * m + MantUnit \div 2) \div MantUnit
         IN  IF sq >= 2 * MantUnit
             THEN 2^(k - 1) + LogFrac(sq \div 2, k - 1)
             ELSE LogFrac(sq, k - 1)

\* log of the frequency v (an integer number of Hz)
LogOf(v) ==
    LET e == FloorLog2(v)
    IN  e * LogUnit + LogFrac((v * MantUnit) \div 2^e, LogBits)

\* the square root of n rounded down, found between lo and hi
RECURSIVE SqrtBetween(_, _, _)
SqrtBetween(n, lo, hi) ==
    IF lo >= hi THEN lo
    ELSE LET mid == (lo + hi + 1) \div 2
         IN  IF mid * mid <= n THEN SqrtBetween(n, mid, hi)
             ELSE SqrtBetween(n, lo, mid - 1)

\* RootOfTwo[k] is 2^(1 / 2^k) as a mantissa
RECURSIVE RootChain(_, _)
RootChain(c, k) ==
    IF k = 0 THEN <<>>
    ELSE LET n == c * MantUnit
             f == SqrtBetween(n, MantUnit, 2 * MantUnit)
             r == IF n - f * f > f THEN f + 1 ELSE f
         IN  <<r>> \o RootChain(r, k - 1)
RootOfTwo == RootChain(2 * MantUnit, LogBits)

\* the mantissa of 2^(fr / LogUnit), bit k of fr downwards
RECURSIVE PowFrac(_, _, _)
PowFrac(fr, k, acc) ==
    IF k > LogBits THEN acc
    ELSE LET bit == (fr \div 2^(LogBits - k)) % 2
         IN  PowFrac(fr, k + 1,
                     IF bit = 1
                     THEN (acc * RootOfTwo[k] + MantUnit \div 2) \div MantUnit
                     ELSE acc)

\* the frequency whose log is y, in units of 1/16 Hz
PowOf(y) ==
    (PowFrac(y % LogUnit, 1, MantUnit) * 2^(y \div LogUnit)) \div (MantUnit \div 16)

\* loCut[i] before the push: max(1, round(f * FFT_SIZE / SAMPLE_RATE)) with
\* f = powf(10, logMin + i / n * (logMax - logMin))
CutAt(i, n, logMin, logMax) ==
    LET f16 == PowOf(logMin + (i * (logMax - logMin)) \div n)
    IN  Max(1, (f16 * FFT_SIZE + 8 * SAMPLE_RATE) \div (16 * SAMPLE_RATE))

\* faulty variant: the cutoffs are left as the rounding gives them
PushUpNone(cuts, i) == cuts

\* push up: loCut[i] becomes loCut[i - 1] + 1 where it is not above loCut[i - 1]
RECURSIVE PushUp(_, _)
PushUp(cuts, i) ==
    IF i > Len(cuts) THEN cuts
    ELSE PushUp(IF cuts[i] <= cuts[i - 1]
                THEN [cuts EXCEPT ![i] = cuts[i - 1] + 1] ELSE cuts, i + 1)

\* loCut[0..n] as a sequence: LoCut(n, f)[i + 1] is loCut[i]
LoCut(n, freqMax) ==
    CHOOSE cuts \in { PushUp([i \in 1..(n + 1) |-> CutAt(i - 1, n, logMin, logMax)], 2) :
                        logMin \in {LogOf(FREQ_MIN)}, logMax \in {LogOf(freqMax)} } : TRUE

\* g_binLo and g_binHi as initProcessor leaves them for n bars
BinRanges(n, freqMax) ==
    CHOOSE r \in { [lo |-> [b \in 1..n |-> loCut[b]],
                    hi |-> [b \in 1..n |->
                              Min(Max(loCut[b], loCut[b + 1] - 1),
                                  FFT_SIZE \div 2 - 1)]] :
                   loCut \in {LoCut(n, freqMax)} } : TRUE

\* the cutoff tables of the processor: the arrays are written by
\* initProcessor alone, from the bar count and the frequency ceiling
g_binLo == BinRanges(g_barCount, g_freqMax).lo
g_binHi == BinRanges(g_barCount, g_freqMax).hi

\* faulty variant: the sensitivity and the ramp-up flag are left as they are
InitProcessorKeepsSens(n) ==
    ProcState(ZeroWindow, ZeroBars(n), ZeroBars(n), ZeroBars(n), g_sens, g_sensInit)

\* the state initProcessor leaves, for n active bars
InitProcessor(n) ==
    ProcState(ZeroWindow, ZeroBars(n), ZeroBars(n), ZeroBars(n), SENS_INIT, TRUE)

\* (a) asymmetric EMA
Smooth(mem, raw) ==
    IF raw > mem
    THEN Mul(mem, SMOOTH_ATTACK) + Mul(raw, Q - SMOOTH_ATTACK)
    ELSE Mul(mem, SMOOTH_DECAY) + Mul(raw, Q - SMOOTH_DECAY)

\* faulty variant: a peak above the memory stays where it is
GravityStepHold(mem, peak, fall) ==
    IF mem >= peak THEN <<mem, 0>> ELSE <<peak, fall>>

\* faulty variant: the falling peak is not held at the memory
GravityStepFree(mem, peak, fall) ==
    IF mem >= peak THEN <<mem, 0>>
    ELSE LET f  == fall + GRAVITY
             p1 == peak - f
         IN  <<IF p1 < 0 THEN 0 ELSE p1, f>>

\* (b) gravity: <<peak, fall>> after the step
GravityStep(mem, peak, fall) ==
    IF mem >= peak THEN <<mem, 0>>
    ELSE LET f  == fall + GRAVITY
             p1 == peak - f
             p2 == IF p1 < mem THEN mem ELSE p1
         IN  <<IF p2 < 0 THEN 0 ELSE p2, f>>

\* faulty variant: the growth branch runs on silent frames too
AutoSensOnSilence(sens, sensInit, overshoot, silence) ==
    LET r == IF overshoot THEN <<Mul(sens, SENS_ATTACK), FALSE>>
             ELSE LET s1 == Mul(sens, SENS_RELEASE)
                  IN  IF sensInit
                      THEN LET s2 == Mul(s1, SENS_INIT_BOOST)
                           IN  <<s2, ~(s2 > SENS_INIT_CAP)>>
                      ELSE <<s1, sensInit>>
    IN  <<Max(SENS_MIN, Min(SENS_MAX, r[1])), r[2]>>

\* 6. auto-sensitivity: <<sens, sensInit>> after the frame
AutoSens(sens, sensInit, overshoot, silence) ==
    LET r == IF overshoot THEN <<Mul(sens, SENS_ATTACK), FALSE>>
             ELSE IF ~silence
             THEN LET s1 == Mul(sens, SENS_RELEASE)
                  IN  IF sensInit
                      THEN LET s2 == Mul(s1, SENS_INIT_BOOST)
                           IN  <<s2, ~(s2 > SENS_INIT_CAP)>>
                      ELSE <<s1, sensInit>>
             ELSE <<sens, sensInit>>
    IN  <<Max(SENS_MIN, Min(SENS_MAX, r[1])), r[2]>>

\* faulty variant: the peak is written out unclamped
BarOutRaw(peak) == peak

\* bars[b] = std::min(g_peak[b], 1.0f)
BarOut(peak) == Min(peak, Q)

\* processFrame on a frame whose samples all have the value fr.amp and whose
\* window spectrum gives bar b the magnitude fr.mag[b] = sqrtf(norm) * g_eq[b].
\* The result is the processor state with the output bars added.
ProcessFrame(p, fr) ==
    LET audioMax  == Abs(fr.amp)
        silence   == audioMax < SILENCE_THRESHOLD
        raw       == [b \in DOMAIN p.mem |-> Mul(fr.mag[b], p.sens)]
        mem       == [b \in DOMAIN p.mem |-> Smooth(p.mem[b], raw[b])]
        grav      == [b \in DOMAIN p.mem |-> GravityStep(mem[b], p.peak[b], p.fall[b])]
        peak      == [b \in DOMAIN p.mem |-> grav[b][1]]
        fall      == [b \in DOMAIN p.mem |-> grav[b][2]]
        overshoot == \E b \in DOMAIN p.mem : peak[b] > Q
        sn        == AutoSens(p.sens, p.sensInit, overshoot, silence)
    IN  [inputBuf |-> SlideWindow(p.inputBuf, fr.amp),
         mem |-> mem, peak |-> peak, fall |-> fall,
         sens |-> sn[1], sensInit |-> sn[2],
         bars |-> [b \in DOMAIN p.mem |-> BarOut(peak[b])]]

\* ----------------------------------------------------------- control plane
\* every '"' of s replaced by '\"'
RECURSIVE EscapeQuotes(_)
EscapeQuotes(s) ==
    IF s = <<>> THEN <<>>
    ELSE (IF s[1] = 34 THEN <<92, 34>> ELSE <<s[1]>>) \o EscapeQuotes(Tail(s))

RECURSIVE SourcesJsonItems(_, _)
SourcesJsonItems(sources, i) ==
    IF i > Len(sources) THEN <<>>
    ELSE (IF i > 1 THEN <<44>> ELSE <<>>)
         \o S_nameOpen \o EscapeQuotes(sources[i].name)
         \o S_descOpen \o EscapeQuotes(sources[i].description) \o <<34, 125>>
         \o SourcesJsonItems(sources, i + 1)

\* {"sources":[{"name":"...","desc":"..."},...]}
BuildSourcesJson(sources) ==
    S_sourcesOpen \o SourcesJsonItems(sources, 1) \o <<93, 125>>

\* What one call of the ws.onText lambda does, as a record:
\*   reply     the text frames it sends (none or one)
\*   interval, barCount, freqMax   the settings it leaves
\*   reinit    whether it ran initProcessor
\*   pending, requested            the pending-source pair it leaves
Effect(reply, interval, barCount, freqMax, reinit, pending, requested) ==
    [reply |-> reply, interval |-> interval, barCount |-> barCount,
     freqMax |-> freqMax, reinit |-> reinit, pending |-> pending,
     requested |-> requested]

NoEffect ==
    Effect(<<>>, sendIntervalMs, g_barCount, g_freqMax, FALSE,
           pendingSource, sourceChangeRequested)

\* faulty variant: any positive rate is taken, in the set or not
OnTextSetFpsAny(msg) ==
    LET fps == Atoi(Substr(msg, 8))
    IN  IF fps > 0
        THEN [NoEffect EXCEPT !.interval = 1000 \div fps,
                              !.reply = <<S_fpsChanged \o StdToString(fps) \o <<125>>>>]
        ELSE NoEffect

OnTextSetFps(msg) ==
    LET fps == Atoi(Substr(msg, 8))
    IN  IF fps = 24 \/ fps = 30 \/ fps = 60
        THEN [NoEffect EXCEPT !.interval = 1000 \div fps,
                              !.reply = <<S_fpsChanged \o StdToString(fps) \o <<125>>>>]
        ELSE NoEffect

\* faulty variant: the ceiling is applied but not acknowledged
OnTextSetFreqMaxSilent(msg) ==
    LET freq == Atoi(Substr(msg, 13))
    IN  IF freq = 10000 \/ freq = 12000 \/ freq = 14000 \/ freq = 16000 \/ freq = 18000
        THEN [NoEffect EXCEPT !.freqMax = freq, !.reinit = TRUE]
        ELSE NoEffect

OnTextSetFreqMax(msg) ==
    LET freq == Atoi(Substr(msg, 13))
    IN  IF freq = 10000 \/ freq = 12000 \/ freq = 14000 \/ freq = 16000 \/ freq = 18000
        THEN [NoEffect EXCEPT !.freqMax = freq, !.reinit = TRUE,
                              !.reply = <<S_freqMaxChanged \o StdToString(freq) \o <<125>>>>]
        ELSE NoEffect

\* faulty variant: any positive count is taken, in the set or not
OnTextSetBarCountAny(msg) ==
    LET count == Atoi(Substr(msg, 14))
    IN  IF count > 0
        THEN [NoEffect EXCEPT !.barCount = count, !.reinit = TRUE,
                              !.reply = <<S_barCountChanged \o StdToString(count) \o <<125>>>>]
        ELSE NoEffect

\* faulty variant: the count is added to the bar count
OnTextSetBarCountAdds(msg) ==
    LET count == Atoi(Substr(msg, 14))
    IN  IF count = 8 \/ count = 16 \/ count = 24 \/ count = 36 \/ count = 72
           \/ count = 100 \/ count = 144
        THEN [NoEffect EXCEPT !.barCount = g_barCount + count, !.reinit = TRUE,
                              !.reply = <<S_barCountChanged \o StdToString(count) \o <<125>>>>]
        ELSE NoEffect

OnTextSetBarCount(msg) ==
    LET count == Atoi(Substr(msg, 14))
    IN  IF count = 8 \/ count = 16 \/ count = 24 \/ count = 36 \/ count = 72
           \/ count = 100 \/ count = 144
        THEN [NoEffect EXCEPT !.barCount = count, !.reinit = TRUE,
                              !.reply = <<S_barCountChanged \o StdToString(count) \o <<125>>>>]
        ELSE NoEffect

\* the lambda; sources is what enumerateSources returns when it is called
OnText(msg, sources) ==
    IF msg = S_GET_SOURCES
    THEN [NoEffect EXCEPT !.reply = <<BuildSourcesJson(sources)>>]
    ELSE IF StartsWith(msg, S_SET_SOURCE)
    THEN [NoEffect EXCEPT !.pending = Substr(msg, 11), !.requested = TRUE]
    ELSE IF StartsWith(msg, S_SET_FPS) THEN OnTextSetFps(msg)
    ELSE IF StartsWith(msg, S_SET_FREQ_MAX) THEN OnTextSetFreqMax(msg)
    ELSE IF StartsWith(msg, S_SET_BAR_COUNT) THEN OnTextSetBarCount(msg)
    ELSE NoEffect

\* ------------------------------------------------------------ environment
\* 'a"': the name of a monitor source other than the default
S_a == <<97, 34>>
\* 'A"': its description
S_descA == <<65, 34>>
\* 'k': a Sec-WebSocket-Key
S_key == <<107>>
\* 'GET /\r\n'
S_GetLine == <<71,69,84,32,47,13,10>>
\* 'Upgrade: websocket\r\n'
S_UpgradeLine == <<85,112,103,114,97,100,101,58,32,119,101,98,115,111,99,107,101,116,13,10>>
\* 'HELLO'
S_HELLO == <<72,69,76,76,79>>

\* what enumerateSources may return
SourceLists == { <<>>, << [name |-> S_a, description |-> S_descA] >> }

ReqValid == S_GetLine \o S_UpgradeLine \o S_KeyHdr \o S_key \o S_CRLF \o S_CRLF
ReqNoKey == S_GetLine \o S_UpgradeLine \o S_CRLF
\* the key line not ended by CRLF
ReqKeyOpen == S_GetLine \o S_UpgradeLine \o S_KeyHdr \o S_key
\* a key and no Upgrade header
ReqNoUpgrade == S_GetLine \o S_KeyHdr \o S_key \o S_CRLF \o S_CRLF

\* what a peer writes when it connects: nothing yet, or an HTTP request
Requests == { <<>>, ReqValid, ReqNoKey, ReqKeyOpen, ReqNoUpgrade }

MaskKey == <<1, 2, 3, 4>>

Commands ==
    { S_GET_SOURCES,
      S_SET_SOURCE \o S_a,
      S_SET_SOURCE \o S_DEFAULT_MONITOR,
      S_SET_FPS \o <<54, 48>>,                     \* SET_FPS:60
      S_SET_FPS \o <<50, 53>>,                     \* SET_FPS:25
      S_SET_FREQ_MAX \o <<49, 48, 48, 48, 48>>,    \* SET_FREQ_MAX:10000
      S_SET_FREQ_MAX \o <<49, 49, 48, 48, 48>>,    \* SET_FREQ_MAX:11000
      S_SET_BAR_COUNT \o <<49, 54>>,               \* SET_BAR_COUNT:16
      S_SET_BAR_COUNT \o <<53, 48>>,               \* SET_BAR_COUNT:50
      S_HELLO }

\* 0x81, masked, 16-bit length 4097: a payload over the cap
OversizedHeader == <<129, 254, 16, 1>> \o MaskKey

\* what a subscriber writes after the handshake: whole frames (text, close,
\* pong), an oversized frame's header, and frames cut short
PeerChunks ==
    { ClientFrame(1, MaskKey, m) : m \in Commands }
    \cup { ClientFrame(8, MaskKey, <<>>),
           ClientFrame(10, MaskKey, <<>>),
           OversizedHeader,
           <<129>>,
           SubSeq(ClientFrame(1, MaskKey, S_HELLO), 1, 8) }

\* the frames the source delivers while the daemon runs: a 0.5-amplitude tone
\* whose spectrum gives every tracked bar the magnitude 1.5
ToneFrame   == [amp |-> 50000, mag |-> [b \in 1..TrackBars |-> 1500]]
DaemonFrames == {ToneFrame}
\* before the first call of processFrame there is no frame
NoFrame == [amp |-> 0, mag |-> [b \in 1..TrackBars |-> 0]]

\* the pa_simple handle: nullptr, or a stream open on the source name
NullHandle == <<>>
StreamOn(name) == <<name>>

\* ---------------------------------------------------------------- WsServer
HasClient == clientSock # SOCK_INVALID

\* a socket after sock_close
ClosedSocket == [state |-> "closed", rx |-> <<>>, peer |-> FALSE]

\* send() to a peer that is there succeeds; to one that has gone it may fail
SendOutcomes(c) == IF sockets[c].peer THEN {TRUE} ELSE {TRUE, FALSE}

\* one WebSocket frame written by sendFrame (ok: both sendAll calls succeeded);
\* gen numbers the reconfiguration the frame acknowledges or was computed under
TxFrame(c, opcode, len, body, ok, gen) ==
    [conn |-> c, kind |-> "frame", hdr |-> FrameHeader(opcode, len),
     len |-> len, body |-> body, ok |-> ok, gen |-> gen]

\* the 101 response; SHA-1 and base64 of the key are left symbolic
TxUpgrade(c, key, ok, gen) ==
    [conn |-> c, kind |-> "http", hdr |-> <<>>, len |-> 0,
     body |-> <<"Sec-WebSocket-Accept", key>>, ok |-> ok, gen |-> gen]

\* the close reply of drainClient, written by sendAll
TxClose(c, ok, gen) ==
    [conn |-> c, kind |-> "frame", hdr |-> <<OP_CLOSE_REPLY, 0>>,
     len |-> 0, body |-> <<>>, ok |-> ok, gen |-> gen]

CurProc == ProcState(g_inputBuf, g_mem, g_peak, g_fall, g_sens, g_sensInit)

SetProc(p) ==
    /\ g_inputBuf' = p.inputBuf
    /\ g_mem' = p.mem
    /\ g_peak' = p.peak
    /\ g_fall' = p.fall
    /\ g_sens' = p.sens
    /\ g_sensInit' = p.sensInit

\* faulty variant: the failed subscriber is kept
DropClientKeeps == UNCHANGED <<clientSock, sockets>>

\* dropClient
DropClient ==
    /\ sockets' = [sockets EXCEPT ![clientSock] = ClosedSocket]
    /\ clientSock' = SOCK_INVALID

\* the opcode 0x01 branch of drainClient: the callback, and the reply it sends
\* faulty variant: a reply goes to the connection made last
ReplyConnLatest == Len(sockets)

\* sendText writes to the socket that is the subscriber at the time of the call
ReplyConn == clientSock

\* faulty variant: everything received so far is taken off the stream
UnreadNothing(r) == <<>>

\* what drainClient leaves in the socket: it reads the bytes of one frame
Unread(r) == r.rest

DispatchText(r, ok, sources) ==
    LET e     == OnText(r.payload, sources)
        sends == e.reply # <<>>
        gen   == hist.nReconf + (IF e.reinit THEN 1 ELSE 0)
    IN  /\ IF sends THEN ok \in SendOutcomes(clientSock) ELSE ok
        /\ IF r.payload = S_GET_SOURCES
           THEN TRUE ELSE sources = <<>>
        /\ sendIntervalMs' = e.interval
        /\ g_barCount' = e.barCount
        /\ g_freqMax' = e.freqMax
        /\ pendingSource' = e.pending
        /\ sourceChangeRequested' = e.requested
        /\ SetProc(IF e.reinit THEN InitProcessor(e.barCount) ELSE CurProc)
        /\ tx' = IF sends
                 THEN Append(tx, TxFrame(ReplyConn, OP_TEXT, Len(e.reply[1]),
                                         e.reply[1], ok, gen))
                 ELSE tx
        /\ IF sends /\ ~ok
           THEN DropClient
           ELSE /\ sockets' = [sockets EXCEPT ![clientSock].rx = Unread(r)]
                /\ clientSock' = clientSock
        /\ hist' = [hist EXCEPT
                      !.nReconf = gen,
                      !.inited = @ \/ e.reinit,
                      !.onTextCalls = @ + 1,
                      !.commanded = @ \cup {clientSock},
                      !.nSetSource = @ + (IF StartsWith(r.payload, S_SET_SOURCE)
                                          THEN 1 ELSE 0)]
        /\ UNCHANGED <<currentSource, pa, listenSock>>

\* faulty variant: the close reply is sent and the subscriber is kept
CloseBranchKeepsClient(ok) ==
    /\ ok \in SendOutcomes(clientSock)
    /\ tx' = Append(tx, TxClose(clientSock, ok, hist.nReconf))
    /\ sockets' = [sockets EXCEPT ![clientSock].rx = <<>>]
    /\ clientSock' = clientSock
    /\ hist' = [hist EXCEPT !.closeRecv = @ \cup {clientSock}]

\* the opcode 0x08 branch of drainClient: the close reply, then dropClient
CloseBranch(ok) ==
    /\ ok \in SendOutcomes(clientSock)
    /\ tx' = Append(tx, TxClose(clientSock, ok, hist.nReconf))
    /\ DropClient
    /\ hist' = [hist EXCEPT !.closeRecv = @ \cup {clientSock}]

\* why drainClient gives up on a stream: the payload is over the cap, the
\* stream ended inside a frame, or it ended between frames
DropCause(rx) ==
    IF rx = <<>> THEN "eof"
    ELSE IF DrainParse(rx, TRUE).res = "drop" THEN "oversize"
    ELSE "truncated"

\* drainClient, with a subscriber connected
DrainClient(ok, sources) ==
    LET r == DrainParse(sockets[clientSock].rx, sockets[clientSock].peer)
    IN  IF r.res = "frame" /\ r.opcode = 1
        THEN /\ DispatchText(r, ok, sources)
             /\ pc' = "apply"
        ELSE /\ sources = <<>>
             /\ UNCHANGED <<procVars, cfgVars, srcVars, listenSock>>
             /\ CASE r.res = "none" ->
                       /\ ok
                       /\ pc' = "apply"
                       /\ UNCHANGED <<clientSock, sockets, tx, hist>>
                  [] r.res = "block" ->
                       /\ ok
                       /\ pc' = "poll_blocked"
                       /\ UNCHANGED <<clientSock, sockets, tx, hist>>
                  [] r.res = "drop" ->
                       /\ ok
                       /\ pc' = "apply"
                       /\ DropClient
                       /\ hist' = [hist EXCEPT !.dropCause =
                                                  DropCause(sockets[clientSock].rx)]
                       /\ UNCHANGED tx
                  [] r.res = "frame" /\ r.opcode = 8 ->
                       /\ pc' = "apply"
                       /\ CloseBranch(ok)
                  [] OTHER ->
                       /\ ok
                       /\ pc' = "apply"
                       /\ sockets' = [sockets EXCEPT ![clientSock].rx = Unread(r)]
                       /\ UNCHANGED <<clientSock, tx, hist>>

\* the socket accept() returns: a handshake this poll is already waiting in,
\* else the oldest connection of the backlog; 0 when there is none
AcceptedSocket ==
    LET waiting == {i \in DOMAIN sockets : sockets[i].state = "handshake"}
        backlog == {i \in DOMAIN sockets : sockets[i].state = "backlog"}
    IN  IF waiting # {} THEN CHOOSE i \in waiting : TRUE
        ELSE IF backlog # {} THEN CHOOSE i \in backlog : \A j \in backlog : i <= j
        ELSE 0

\* faulty variant: the end of the key line is not looked for
HandshakeFailsKeyOnly(n, k, kEnd) == n = 0 \/ k = 0

\* the three early returns of the handshake: n bytes received, the key header
\* at k and the CRLF that ends it at kEnd (0: not found)
HandshakeFails(n, k, kEnd) == n = 0 \/ k = 0 \/ kEnd = 0

\* poll() from accept on: the handshake on the accepted socket s
Handshake(s, ok) ==
    LET sk   == sockets[s]
        n    == Min(Len(sk.rx), HS_BUF - 1)
        buf  == SubSeq(sk.rx, 1, n)
        k    == StrStr(buf, S_KeyHdr, 1)
        kEnd == IF k = 0 THEN 0 ELSE StrStr(buf, S_CRLF, k + Len(S_KeyHdr))
    IN  /\ UNCHANGED <<procVars, cfgVars, srcVars, listenSock>>
        /\ IF sk.rx = <<>> /\ sk.peer
           THEN \* recv blocks: the socket was made blocking
                /\ ok
                /\ sockets' = [sockets EXCEPT ![s].state = "handshake"]
                /\ pc' = "poll_blocked"
                /\ UNCHANGED <<clientSock, tx, hist>>
           ELSE IF HandshakeFails(n, k, kEnd)
           THEN /\ ok
                /\ sockets' = [sockets EXCEPT ![s] = ClosedSocket]
                /\ pc' = "apply"
                /\ UNCHANGED <<clientSock, tx, hist>>
           ELSE /\ ok \in SendOutcomes(s)
                /\ tx' = Append(tx, TxUpgrade(s, SubSeq(buf, k + Len(S_KeyHdr), kEnd - 1),
                                              ok, hist.nReconf))
                /\ sockets' = [sockets EXCEPT ![s].state = "accepted",
                                              ![s].rx = SubSeq(sk.rx, n + 1, Len(sk.rx))]
                /\ clientSock' = s
                /\ pc' = "apply"
                /\ hist' = [hist EXCEPT !.flushed = FALSE, !.inited = FALSE]

\* faulty variant: accept is tried on every call, subscriber or not
PollAcceptsAlways(ok, sources) ==
    IF listenSock = "open" /\ AcceptedSocket # 0
    THEN /\ sources = <<>>
         /\ Handshake(AcceptedSocket, ok)
    ELSE IF HasClient THEN DrainClient(ok, sources)
    ELSE /\ ok
         /\ sources = <<>>
         /\ pc' = "apply"
         /\ UNCHANGED <<procVars, cfgVars, srcVars, netVars, hist>>

\* WsServer::poll
Poll(ok, sources) ==
    IF HasClient THEN DrainClient(ok, sources)
    ELSE IF listenSock = "invalid" \/ AcceptedSocket = 0
    THEN /\ ok
         /\ sources = <<>>
         /\ pc' = "apply"
         /\ UNCHANGED <<procVars, cfgVars, srcVars, netVars, hist>>
    ELSE /\ sources = <<>>
         /\ Handshake(AcceptedSocket, ok)

\* whether the recv poll() waits in would still wait
PollWaits ==
    IF HasClient
    THEN DrainParse(sockets[clientSock].rx, sockets[clientSock].peer).res = "block"
    ELSE LET s == AcceptedSocket
         IN  s # 0 /\ sockets[s].rx = <<>> /\ sockets[s].peer

\* -------------------------------------------------------------------- main
\* g_barCount and g_freqMax before any command: the compile-time defaults
InitialBarCount == BAR_COUNT
InitialFreqMax == FREQ_MAX

\* the statics of fft.h before initProcessor has run
StaticProc == ProcState(ZeroWindow, ZeroBars(BAR_COUNT), ZeroBars(BAR_COUNT),
                        ZeroBars(BAR_COUNT), 0, FALSE)

Init ==
    /\ pc = "start"
    /\ g_running = TRUE
    /\ exitCode = -1
    /\ listenSock = "invalid"
    /\ clientSock = SOCK_INVALID
    /\ sockets = <<>>
    /\ peerSends = 0
    /\ tx = <<>>
    /\ currentSource = S_DEFAULT_MONITOR
    /\ sourceChangeRequested = FALSE
    /\ pendingSource = <<>>
    /\ sendIntervalMs = DEFAULT_INTERVAL
    /\ g_barCount = InitialBarCount
    /\ g_freqMax = InitialFreqMax
    /\ pa = NullHandle
    /\ wasIdle = TRUE
    /\ sinceSend = 0
    /\ bars = ZeroBars(BAR_COUNT)
    /\ g_inputBuf = StaticProc.inputBuf
    /\ g_mem = StaticProc.mem
    /\ g_peak = StaticProc.peak
    /\ g_fall = StaticProc.fall
    /\ g_sens = StaticProc.sens
    /\ g_sensInit = StaticProc.sensInit
    /\ nAudio = 0
    /\ hist = [flushed |-> FALSE, inited |-> FALSE, nReconf |-> 0,
               onTextCalls |-> 0, nSetSource |-> 0, closeRecv |-> {},
               dropCause |-> "none", elapsed |-> 0, closed |-> <<>>,
               commanded |-> {}, frame |-> NoFrame]

\* main up to the loop: ws.start, connectPA(currentSource), initProcessor
Startup ==
    /\ pc = "start"
    /\ \E bindOk, paOk \in BOOLEAN :
         /\ bindOk \/ paOk
         /\ IF bindOk /\ paOk
            THEN /\ listenSock' = "open"
                 /\ pa' = StreamOn(currentSource)
                 /\ SetProc(InitProcessor(g_barCount))
                 /\ pc' = "loop"
                 /\ exitCode' = exitCode
            ELSE /\ listenSock' = "invalid"
                 /\ pa' = NullHandle
                 /\ UNCHANGED procVars
                 /\ pc' = "done"
                 /\ exitCode' = 1
    /\ UNCHANGED <<g_running, peerSends, cfgVars, currentSource,
                   sourceChangeRequested, pendingSource, clientSock, sockets,
                   tx, loopVars, hist>>

\* ws.poll() at the head of an iteration
LoopPoll ==
    /\ pc = "loop"
    /\ g_running
    /\ \E ok \in BOOLEAN, sources \in SourceLists : Poll(ok, sources)
    /\ UNCHANGED <<g_running, exitCode, peerSends, loopVars>>

\* a poll() that waited in recv goes on once the peer has written or gone
PollResume ==
    /\ pc = "poll_blocked"
    /\ ~PollWaits
    /\ \E ok \in BOOLEAN, sources \in SourceLists : Poll(ok, sources)
    /\ UNCHANGED <<g_running, exitCode, peerSends, loopVars>>

\* "Handle source change request": what it leaves and the reply it sends
SourceChange(openOk, revertOk) ==
    IF sourceChangeRequested /\ pendingSource # currentSource
    THEN IF openOk
         THEN [pa |-> StreamOn(pendingSource), currentSource |-> pendingSource, reinit |-> TRUE,
               reply |-> <<S_sourceChanged \o pendingSource \o <<34, 125>>>>]
         ELSE [pa |-> IF revertOk THEN StreamOn(currentSource) ELSE NullHandle,
               currentSource |-> currentSource, reinit |-> FALSE,
               reply |-> <<S_sourceError>>]
    ELSE [pa |-> pa, currentSource |-> currentSource, reinit |-> FALSE,
          reply |-> <<>>]

\* faulty variant: the loop goes on to the read without a subscriber
IdleGateOpen(dropped) == FALSE

\* `if (!ws.hasClient())` after the source change; dropped: the reply to the
\* source change could not be sent and sendFrame has dropped the subscriber
IdleGate(dropped) == ~HasClient \/ dropped

\* the iteration from the source change to the read: the pending source, the
\* idle branch (sleep, continue) and the "client just connected" branch
\* faulty variant: the flag is left as it was
RequestedKept == sourceChangeRequested

\* sourceChangeRequested = false, under sourceMtx, when the flag was set
RequestedAfterApply == FALSE

ApplyAndGate ==
    /\ pc = "apply"
    /\ \E openOk, revertOk, ok \in BOOLEAN, ub \in {"return", "abort"} :
         LET switching == sourceChangeRequested /\ pendingSource # currentSource
             sc        == SourceChange(openOk, revertOk)
             sends     == sc.reply # <<>> /\ HasClient
             dropped   == sends /\ ~ok
             idle      == IdleGate(dropped)
             starting  == ~idle /\ wasIdle
             gen       == hist.nReconf + (IF sc.reinit THEN 1 ELSE 0)
             p1        == IF sc.reinit THEN InitProcessor(g_barCount) ELSE CurProc
         IN  /\ switching \/ openOk
             /\ (switching /\ ~openOk) \/ revertOk
             /\ IF sends THEN ok \in SendOutcomes(clientSock) ELSE ok
             /\ (starting /\ sc.pa = NullHandle) \/ ub = "return"
             /\ sourceChangeRequested' = RequestedAfterApply
             /\ pendingSource' = pendingSource
             /\ pa' = sc.pa
             /\ currentSource' = sc.currentSource
             /\ tx' = IF sends
                      THEN Append(tx, TxFrame(ReplyConn, OP_TEXT, Len(sc.reply[1]),
                                              sc.reply[1], ok, gen))
                      ELSE tx
             /\ IF dropped THEN DropClient ELSE UNCHANGED <<clientSock, sockets>>
             /\ SetProc(IF starting THEN InitProcessor(g_barCount) ELSE p1)
             /\ wasIdle' = IF idle THEN TRUE ELSE FALSE
             /\ sinceSend' = IF starting THEN 0 ELSE sinceSend
             /\ hist' = [hist EXCEPT !.nReconf = gen,
                                     !.flushed = @ \/ starting,
                                     !.inited = @ \/ starting \/ sc.reinit]
             /\ pc' = IF idle THEN "loop"
                      ELSE IF starting /\ sc.pa = NullHandle /\ ub = "abort" THEN "crashed"
                      ELSE "read"
    /\ UNCHANGED <<g_running, exitCode, peerSends, cfgVars, listenSock, bars, nAudio>>

\* faulty variant: the compile-time count, whatever SET_BAR_COUNT has set
BinaryPayloadLenDefault == BAR_COUNT * SIZEOF_FLOAT

\* the length main passes to sendBinary
BinaryPayloadLen == g_barCount * SIZEOF_FLOAT

\* faulty variant: every frame is sent, whatever the interval
DueAlways(since) == TRUE

\* duration_cast<milliseconds>(now - lastSend).count() >= sendIntervalMs,
\* since being now - lastSend in TicksPerMs-ths of a ms
Due(since) == since \div TicksPerMs >= sendIntervalMs

\* pa_simple_read, processFrame and the paced sendBinary; dt is the time the
\* blocking read takes, maxAudio the frames the source delivers in a run
ReadStep(dt, maxAudio) ==
    /\ pc = "read"
    /\ \/ \* the handle is null: the read is undefined (abort, or an error return)
          /\ pa = NullHandle
          /\ \E ub \in {"return", "abort"} :
               pc' = IF ub = "abort" THEN "crashed" ELSE "break"
          /\ UNCHANGED <<procVars, netVars, loopVars, hist>>
       \/ \* ret < 0: break
          /\ pa # NullHandle
          /\ pc' = "break"
          /\ UNCHANGED <<procVars, netVars, loopVars, hist>>
       \/ /\ pa # NullHandle
          /\ nAudio < maxAudio
          /\ \E fr \in DaemonFrames, ok \in BOOLEAN :
               LET p     == ProcessFrame(CurProc, fr)
                   since == sinceSend + dt
                   due   == Due(since)
               IN  /\ IF due THEN ok \in SendOutcomes(clientSock) ELSE ok
                   /\ SetProc(p)
                   /\ bars' = p.bars
                   /\ nAudio' = nAudio + 1
                   /\ sinceSend' = IF due THEN 0 ELSE since
                   /\ tx' = IF due
                            THEN Append(tx, TxFrame(clientSock, OP_BINARY,
                                                    BinaryPayloadLen,
                                                    p.bars, ok, hist.nReconf))
                            ELSE tx
                   /\ IF due /\ ~ok THEN DropClient
                      ELSE UNCHANGED <<clientSock, sockets>>
                   /\ hist' = [hist EXCEPT !.elapsed = since, !.frame = fr]
                   /\ UNCHANGED <<listenSock, wasIdle>>
                   /\ pc' = "loop"
    /\ UNCHANGED <<g_running, exitCode, peerSends, cfgVars, srcVars>>

\* the read takes the time of one frame of audio
ReadProcessSend == ReadStep(FrameTicks, MaxAudio)

\* after the loop: pa_simple_free, ws.stop(), return 0
\* what the shutdown closes, in the order of its calls: pa_simple_free if
\* there is a stream, then in WsServer::stop the client socket if there is
\* one, then the listener
ShutdownCloses ==
    (IF pa # NullHandle THEN <<"audio">> ELSE <<>>)
    \o (IF HasClient THEN <<"client">> ELSE <<>>)
    \o (IF listenSock = "open" THEN <<"listener">> ELSE <<>>)

Shutdown ==
    /\ \/ pc = "loop" /\ ~g_running
       \/ pc = "break"
    /\ pa' = NullHandle
    /\ sockets' = [i \in DOMAIN sockets |->
                     IF i = clientSock THEN ClosedSocket ELSE sockets[i]]
    /\ clientSock' = SOCK_INVALID
    /\ listenSock' = "invalid"
    /\ exitCode' = 0
    /\ pc' = "done"
    /\ hist' = [hist EXCEPT !.closed = ShutdownCloses]
    /\ UNCHANGED <<g_running, peerSends, procVars, cfgVars, currentSource,
                   sourceChangeRequested, pendingSource, tx, loopVars>>

\* onSignal
Signal ==
    /\ pc \notin {"start", "done", "crashed"}
    /\ g_running
    /\ g_running' = FALSE
    /\ UNCHANGED <<pc, exitCode, peerSends, procVars, cfgVars, srcVars, netVars,
                   loopVars, hist>>

\* ------------------------------------------------------------------- peers
\* The server looks at the backlog and at a socket's inbound bytes only inside
\* poll(): a connect or a write at any other moment of the iteration is seen
\* exactly as one made just before the next poll(), so peers connect and write
\* while main is at (or waiting inside) poll().  A peer may close at any moment:
\* that decides whether a later send can fail.
\* a peer connects to the listener, with what it writes at once
PeerConnect ==
    /\ listenSock = "open"
    /\ Len(sockets) < MaxConns
    /\ pc \in {"loop", "poll_blocked"}
    /\ Cardinality({i \in DOMAIN sockets : sockets[i].state = "backlog"}) < LISTEN_BACKLOG
    /\ \E req \in Requests :
         sockets' = Append(sockets, [state |-> "backlog", rx |-> req, peer |-> TRUE])
    /\ UNCHANGED <<pc, g_running, exitCode, peerSends, procVars, cfgVars, srcVars,
                   listenSock, clientSock, tx, loopVars, hist>>

\* a peer writes: its request if it has sent none, frames once it is the subscriber
PeerSend ==
    /\ peerSends < MaxPeerSends
    /\ pc \in {"loop", "poll_blocked"}
    /\ \E i \in DOMAIN sockets :
         /\ sockets[i].peer
         /\ \/ /\ sockets[i].state \in {"backlog", "handshake"}
               /\ sockets[i].rx = <<>>
               /\ \E req \in Requests \ {<<>>} :
                    sockets' = [sockets EXCEPT ![i].rx = req]
            \/ /\ sockets[i].state = "accepted"
               /\ \E chunk \in PeerChunks :
                    sockets' = [sockets EXCEPT ![i].rx = @ \o chunk]
    /\ peerSends' = peerSends + 1
    /\ UNCHANGED <<pc, g_running, exitCode, procVars, cfgVars, srcVars,
                   listenSock, clientSock, tx, loopVars, hist>>

\* a peer closes its end
PeerClose ==
    /\ \E i \in DOMAIN sockets :
         /\ sockets[i].peer
         /\ sockets' = [sockets EXCEPT ![i].peer = FALSE]
    /\ UNCHANGED <<pc, g_running, exitCode, peerSends, procVars, cfgVars, srcVars,
                   listenSock, clientSock, tx, loopVars, hist>>

Next ==
    \/ Startup
    \/ LoopPoll
    \/ PollResume
    \/ ApplyAndGate
    \/ ReadProcessSend
    \/ Shutdown
    \/ Signal
    \/ PeerConnect
    \/ PeerSend
    \/ PeerClose

Spec == Init /\ [][Next]_vars

\* ---------------------------------------------------------------------------
\* Pacing: one subscriber that may change the frame rate, and reads whose
\* duration is a third of a millisecond under or over one frame of audio
\* ---------------------------------------------------------------------------

\* how long pa_simple_read blocks for FRAME_SAMPLES samples
FrameDurations == {FrameTicks - 1, FrameTicks, FrameTicks + 1}

PacedRead == \E dt \in FrameDurations : ReadStep(dt, PaceAudio)

PaceCommands ==
    { S_SET_FPS \o <<54, 48>>,                     \* SET_FPS:60
      S_SET_FPS \o <<50, 52>> }                     \* SET_FPS:24

\* the only peer connects and sends a complete upgrade request
PaceConnect ==
    /\ listenSock = "open"
    /\ sockets = <<>>
    /\ pc = "loop"
    /\ sockets' = <<[state |-> "backlog", rx |-> ReqValid, peer |-> TRUE]>>
    /\ UNCHANGED <<pc, g_running, exitCode, peerSends, procVars, cfgVars, srcVars,
                   listenSock, clientSock, tx, loopVars, hist>>

\* the subscriber sends one SET_FPS command
PaceCommand ==
    /\ peerSends < MaxPeerSends
    /\ pc = "loop"
    /\ HasClient
    /\ \E m \in PaceCommands :
         sockets' = [sockets EXCEPT
                        ![clientSock].rx = @ \o ClientFrame(1, MaskKey, m)]
    /\ peerSends' = peerSends + 1
    /\ UNCHANGED <<pc, g_running, exitCode, procVars, cfgVars, srcVars,
                   listenSock, clientSock, tx, loopVars, hist>>

PaceNext ==
    \/ Startup
    \/ LoopPoll
    \/ ApplyAndGate
    \/ PacedRead
    \/ PaceConnect
    \/ PaceCommand

PaceSpec == Init /\ [][PaceNext]_vars

\* ---------------------------------------------------------------------------
\* Sessions: subscribers that come one after the other, send complete upgrade
\* requests and at most a SET_BAR_COUNT command, and leave
\* ---------------------------------------------------------------------------

SessionRead == ReadStep(FrameTicks, SessionAudio)

\* a peer connects while nobody is subscribed
SessionConnect ==
    /\ listenSock = "open"
    /\ Len(sockets) < MaxConns
    /\ pc = "loop"
    /\ ~HasClient
    /\ \A i \in DOMAIN sockets : sockets[i].state = "closed"
    /\ sockets' = Append(sockets, [state |-> "backlog", rx |-> ReqValid, peer |-> TRUE])
    /\ UNCHANGED <<pc, g_running, exitCode, peerSends, procVars, cfgVars, srcVars,
                   listenSock, clientSock, tx, loopVars, hist>>

\* the subscriber sends SET_BAR_COUNT:16
SessionCommand ==
    /\ peerSends < MaxPeerSends
    /\ pc = "loop"
    /\ HasClient
    /\ sockets[clientSock].peer
    /\ sockets' = [sockets EXCEPT
                     ![clientSock].rx =
                        @ \o ClientFrame(1, MaskKey, S_SET_BAR_COUNT \o <<49, 54>>)]
    /\ peerSends' = peerSends + 1
    /\ UNCHANGED <<pc, g_running, exitCode, procVars, cfgVars, srcVars,
                   listenSock, clientSock, tx, loopVars, hist>>

SessionNext ==
    \/ Startup
    \/ LoopPoll
    \/ ApplyAndGate
    \/ SessionRead
    \/ SessionConnect
    \/ SessionCommand
    \/ PeerClose

SessionSpec == Init /\ [][SessionNext]_vars

\* ---------------------------------------------------------------------------
\* Queued commands: one subscriber that writes the frames of a script, several
\* of them between two polls, and may leave
\* ---------------------------------------------------------------------------

\* SET_FPS:60, a pong, SET_BAR_COUNT:16, SET_FPS:24
QueueScript ==
    << ClientFrame(1, MaskKey, S_SET_FPS \o <<54, 48>>),
       ClientFrame(10, MaskKey, <<>>),
       ClientFrame(1, MaskKey, S_SET_BAR_COUNT \o <<49, 54>>),
       ClientFrame(1, MaskKey, S_SET_FPS \o <<50, 52>>) >>

QueueRead == ReadStep(FrameTicks, QueueAudio)

\* the subscriber writes the next frame of the script
QueueSend ==
    /\ peerSends < Min(QueueSends, Len(QueueScript))
    /\ pc = "loop"
    /\ HasClient
    /\ sockets' = [sockets EXCEPT ![clientSock].rx = @ \o QueueScript[peerSends + 1]]
    /\ peerSends' = peerSends + 1
    /\ UNCHANGED <<pc, g_running, exitCode, procVars, cfgVars, srcVars,
                   listenSock, clientSock, tx, loopVars, hist>>

QueueNext ==
    \/ Startup
    \/ LoopPoll
    \/ ApplyAndGate
    \/ QueueRead
    \/ PaceConnect
    \/ QueueSend
    \/ PeerClose

QueueSpec == Init /\ [][QueueNext]_vars

\* ---------------------------------------------------------------------------
\* Settings: one subscriber sends SET_BAR_COUNT and SET_FREQ_MAX commands
\* with every accepted value, each after the daemon has read the one before
\* ---------------------------------------------------------------------------
BarCountArgs == {8, 16, 24, 36, 72, 100, 144}
FreqMaxArgs  == {10000, 12000, 14000, 16000, 18000}

ConfigTexts ==
    {S_SET_BAR_COUNT \o StdToString(k) : k \in BarCountArgs}
    \cup {S_SET_FREQ_MAX \o StdToString(f) : f \in FreqMaxArgs}

ConfigRead == ReadStep(FrameTicks, ConfigAudio)

\* the subscriber writes one command out of texts, maxSends times at most
SendCommand(texts, maxSends) ==
    /\ peerSends < maxSends
    /\ pc = "loop"
    /\ HasClient
    /\ sockets[clientSock].rx = <<>>
    /\ \E text \in texts :
         sockets' = [sockets EXCEPT
                       ![clientSock].rx = ClientFrame(1, MaskKey, text)]
    /\ peerSends' = peerSends + 1
    /\ UNCHANGED <<pc, g_running, exitCode, procVars, cfgVars, srcVars,
                   listenSock, clientSock, tx, loopVars, hist>>

ConfigSend == SendCommand(ConfigTexts, ConfigSends)

ConfigNext ==
    \/ Startup
    \/ LoopPoll
    \/ ApplyAndGate
    \/ ConfigRead
    \/ PaceConnect
    \/ ConfigSend
    \/ PeerClose

ConfigSpec == Init /\ [][ConfigNext]_vars

\* ---------------------------------------------------------------------------
\* The processor alone: processFrame applied to frames of any level and
\* spectrum, from the states the processor can be in (0 <= mem <= peak,
\* fall >= 0, SENS_MIN <= sens <= SENS_MAX)
\* ---------------------------------------------------------------------------

\* values of g_mem[b] and g_peak[b]: 0, 0.03, 0.3, 1.2 and (peak only) 2.0
MemValues  == {0, 30, 300, 1200}
PeakValues == MemValues \cup {2000}
\* values of g_fall[b]: 0 and 0.5
FallValues == {0, 500}
SensValues == {SENS_MIN, SENS_INIT, SENS_MAX}

\* sample levels (silence, 0.001, -0.5) and per-bar magnitudes (0, 1.5, 100.0)
\* of the frames
FrameAmps == {0, 100, -50000}
FrameMags == {0, 1500, 100000}
ProcFrames == [amp : FrameAmps, mag : [1..TrackBars -> FrameMags]]

ProcInit ==
    /\ pc = "start"
    /\ g_running = TRUE
    /\ exitCode = -1
    /\ listenSock = "invalid"
    /\ clientSock = SOCK_INVALID
    /\ sockets = <<>>
    /\ peerSends = 0
    /\ tx = <<>>
    /\ currentSource = S_DEFAULT_MONITOR
    /\ sourceChangeRequested = FALSE
    /\ pendingSource = <<>>
    /\ sendIntervalMs = DEFAULT_INTERVAL
    /\ g_barCount = InitialBarCount
    /\ g_freqMax = InitialFreqMax
    /\ pa = NullHandle
    /\ wasIdle = TRUE
    /\ sinceSend = 0
    /\ bars = ZeroBars(BAR_COUNT)
    /\ g_inputBuf = ZeroWindow
    /\ g_mem \in [Bars(BAR_COUNT) -> MemValues]
    /\ g_peak \in [Bars(BAR_COUNT) -> PeakValues]
    /\ \A b \in Bars(BAR_COUNT) : g_mem[b] <= g_peak[b]
    /\ g_fall \in [Bars(BAR_COUNT) -> FallValues]
    /\ g_sens \in SensValues
    /\ g_sensInit \in BOOLEAN
    /\ nAudio = 0
    /\ hist = [flushed |-> FALSE, inited |-> TRUE, nReconf |-> 0,
               onTextCalls |-> 0, nSetSource |-> 0, closeRecv |-> {},
               dropCause |-> "none", elapsed |-> 0, closed |-> <<>>,
               commanded |-> {}, frame |-> NoFrame]

\* processFrame(chunk, bars)
ProcStep ==
    /\ nAudio < MaxProcFrames
    /\ \E fr \in ProcFrames :
         LET p == ProcessFrame(CurProc, fr)
         IN  /\ SetProc(p)
             /\ bars' = p.bars
             /\ hist' = [hist EXCEPT !.frame = fr]
    /\ nAudio' = nAudio + 1
    /\ UNCHANGED <<pc, g_running, exitCode, peerSends, cfgVars, srcVars, netVars,
                   wasIdle, sinceSend>>

ProcSpec == ProcInit /\ [][ProcStep]_vars

\* ---------------------------------------------------------------------------
\* Tone, then silence: a fresh processor is fed ToneFrames frames of a
\* 0.5-amplitude tone and then SilentFrames frames of zeros.  The spectrum is
\* tied to the window: a window of zeros has magnitude 0 in every bin, a
\* window full of tone gives the tracked bars the magnitude of ToneFrame, and
\* a window that holds both gives them a magnitude between a third of that
\* and a tenth above it (leakage).
\* ---------------------------------------------------------------------------
ToneMag == ToneFrame.mag[1]
PartialMags == {ToneMag \div 3, ToneMag + ToneMag \div 10}

WindowMags(buf) ==
    IF \A i \in DOMAIN buf : buf[i][1] = 0 THEN {0}
    ELSE IF \A i \in DOMAIN buf : buf[i][1] # 0 THEN {ToneMag}
    ELSE PartialMags

DecayInit ==
    /\ ProcInit
    /\ CurProc = InitProcessor(BAR_COUNT)

\* processFrame on a chunk of level amp
DecayFrame(amp) ==
    /\ \E m \in WindowMags(SlideWindow(g_inputBuf, amp)) :
         LET fr == [amp |-> amp, mag |-> [b \in 1..TrackBars |-> m]]
             p  == ProcessFrame(CurProc, fr)
         IN  /\ SetProc(p)
             /\ bars' = p.bars
             /\ hist' = [hist EXCEPT !.frame = fr]
    /\ nAudio' = nAudio + 1
    /\ UNCHANGED <<pc, g_running, exitCode, peerSends, cfgVars, srcVars, netVars,
                   wasIdle, sinceSend>>

ToneStep ==
    /\ nAudio < ToneFrames
    /\ DecayFrame(ToneFrame.amp)

SilentStep ==
    /\ nAudio >= ToneFrames
    /\ nAudio < ToneFrames + SilentFrames
    /\ DecayFrame(0)

DecayNext == ToneStep \/ SilentStep

DecaySpec == DecayInit /\ [][DecayNext]_vars

\* ---------------------------------------------------------------------------
\* Progress: the process is scheduled, so main takes its next step whenever
\* it has one; peers and signals are under no obligation
\* ---------------------------------------------------------------------------

\* main has a next step: it is not returned or dead, and not inside a recv
\* that still waits
MainCanStep ==
    \/ pc \in {"start", "loop", "apply", "read", "break"}
    \/ pc = "poll_blocked" /\ ~PollWaits

\* a step of main: the steps of main are those that move its position
MainMoves ==
    /\ MainCanStep
    /\ pc' \in {"loop", "poll_blocked", "apply", "read", "break", "done", "crashed"}
    /\ pc' # pc

FairSpec == Spec /\ WF_pc(MainMoves)

\* -------------------------------------------------------------- properties
\* the step of main in which poll() runs: to its return, or to a wait in recv
PollRuns ==
    \/ pc = "loop" /\ pc' \notin {"loop", "done"}
    \/ pc = "poll_blocked" /\ pc' # "poll_blocked"

\* what drainClient finds at the head of the subscriber's stream
HeadFrame == DrainParse(sockets[clientSock].rx, sockets[clientSock].peer)

IsText(e) == e.kind = "frame" /\ e.hdr[1] = OP_TEXT
IsBinary(e) == e.kind = "frame" /\ e.hdr[1] = OP_BINARY

\* the connections whose handshake succeeded and whose socket is open
OpenSessions == {i \in DOMAIN sockets : sockets[i].state = "accepted"}

C1_AtMostOne ==
    /\ Cardinality(OpenSessions) <= 1
    /\ OpenSessions = IF HasClient THEN {clientSock} ELSE {}
    /\ HasClient => \A i \in DOMAIN sockets : sockets[i].state # "handshake"

C1_Step ==
    /\ \A i \in DOMAIN sockets :
         (sockets[i].state = "backlog" /\ sockets'[i].state # "backlog") => ~HasClient
    /\ (HasClient /\ clientSock' = SOCK_INVALID /\ pc' # "done") =>
         (sockets'[clientSock].state = "closed" /\ listenSock' = "open")
    /\ (PollRuns /\ ~HasClient /\ AcceptedSocket # 0
                 /\ sockets[AcceptedSocket].rx = ReqValid) =>
         clientSock' = AcceptedSocket

\* C1: at most one subscriber in every reachable state; a connection leaves the
\* backlog (accept) only in a step that starts with no subscriber; every drop
\* closes the subscriber's socket and leaves the listener open, and a poll()
\* that runs with no subscriber and a complete upgrade request waiting makes
\* that connection the subscriber.
C1_OneSubscriber == []C1_AtMostOne /\ [][C1_Step]_vars

\* a second session, accepted after the first was dropped by a failed send
C1_Witness ==
    /\ Len(sockets) >= 2
    /\ clientSock = 2
    /\ sockets[1].state = "closed"
    /\ \E i \in DOMAIN tx : tx[i].conn = 1 /\ tx[i].kind = "frame" /\ ~tx[i].ok

\* C2: whenever main is about to read an audio frame, the source has been
\* flushed and the processor reinitialized since the current session's
\* handshake.
C2_FlushedBeforeFirstFrame == (pc = "read") => (hist.flushed /\ hist.inited)

\* C3: main never waits inside poll().
C3_PollNeverBlocks == pc # "poll_blocked"

FpsSet == {24, 30, 60}
FreqMaxSet == {10000, 12000, 14000, 16000, 18000}
BarCountSet == {8, 16, 24, 36, 72, 100, 144}

\* an unknown command, or a SET_FPS / SET_FREQ_MAX / SET_BAR_COUNT whose
\* number is outside its set
Ignored(msg) ==
    /\ msg # S_GET_SOURCES
    /\ ~StartsWith(msg, S_SET_SOURCE)
    /\ StartsWith(msg, S_SET_FPS) => Atoi(Substr(msg, 8)) \notin FpsSet
    /\ StartsWith(msg, S_SET_FREQ_MAX) => Atoi(Substr(msg, 13)) \notin FreqMaxSet
    /\ StartsWith(msg, S_SET_BAR_COUNT) => Atoi(Substr(msg, 14)) \notin BarCountSet

C4_Step ==
    (/\ PollRuns
     /\ HasClient
     /\ HeadFrame.res = "frame"
     /\ HeadFrame.opcode = 1
     /\ Ignored(HeadFrame.payload)) =>
        /\ hist'.onTextCalls = hist.onTextCalls + 1
        /\ tx' = tx
        /\ clientSock' = clientSock
        /\ UNCHANGED <<cfgVars, procVars, srcVars>>

\* C4: a poll() that hands the callback an unknown command, or a SET_FPS /
\* SET_FREQ_MAX / SET_BAR_COUNT whose number is outside its set, writes
\* nothing and leaves the interval, the bar count, the frequency ceiling, the
\* processor state and the source settings as they were.
C4_IgnoredIsNoOp == [][C4_Step]_vars

\* the callback has run, on a command that was neither a source request nor
\* answered, and main has not yet gone on
C4_Witness ==
    /\ pc = "apply"
    /\ HasClient
    /\ hist.onTextCalls = 1
    /\ hist.nSetSource = 0
    /\ \A i \in DOMAIN tx : ~IsText(tx[i])

\* the count in the last barCountChanged reply among the first i writes, the
\* default when there is none
RECURSIVE AckedBarCount(_)
AckedBarCount(i) ==
    IF i = 0 THEN BAR_COUNT
    ELSE IF IsText(tx[i]) /\ StartsWith(tx[i].body, S_barCountChanged)
    THEN Atoi(Substr(tx[i].body, Len(S_barCountChanged)))
    ELSE AckedBarCount(i - 1)

\* the payload length a frame header declares
DeclaredLen(hdr) ==
    IF hdr[2] % 128 < 126 THEN hdr[2] % 128
    ELSE BigEndian(SubSeq(hdr, 3, Len(hdr)), 1, 0)

\* C5: every binary frame is written with a payload length, and a header
\* declaring a length, of 4 x the count in the last barCountChanged reply
\* written before it (72 when there is none).
C5_BinaryLength ==
    \A i \in DOMAIN tx :
        IsBinary(tx[i]) =>
            /\ tx[i].len = 4 * AckedBarCount(i - 1)
            /\ DeclaredLen(tx[i].hdr) = tx[i].len

\* the reply {"barCountChanged":16}, and after it a binary frame of 64 bytes
C5_Witness ==
    \E i, j \in DOMAIN tx :
        /\ i < j
        /\ IsText(tx[i])
        /\ tx[i].body = S_barCountChanged \o <<49, 54, 125>>
        /\ IsBinary(tx[j])
        /\ tx[j].len = 64

\* the acknowledgment of a reconfiguration
IsAck(e) ==
    /\ IsText(e)
    /\ \/ StartsWith(e.body, S_barCountChanged)
       \/ StartsWith(e.body, S_freqMaxChanged)
       \/ StartsWith(e.body, S_sourceChanged)

\* the number of reconfigurations made before session c began
SessionGen(c) ==
    tx[CHOOSE i \in DOMAIN tx : tx[i].conn = c /\ tx[i].kind = "http"].gen

\* C6: in the writes to one connection, a binary frame computed after the
\* k-th reconfiguration (of the bar count, the frequency ceiling or the
\* source) made in that session comes after the acknowledgment of that
\* reconfiguration, and no acknowledgment comes after a binary frame that
\* already reflects it.
C6_AckBeforeFrames ==
    /\ \A i \in DOMAIN tx :
         IsBinary(tx[i]) =>
            \A k \in (SessionGen(tx[i].conn) + 1)..tx[i].gen :
                \E j \in 1..(i - 1) :
                    tx[j].conn = tx[i].conn /\ IsAck(tx[j]) /\ tx[j].gen = k
    /\ \A j \in DOMAIN tx :
         IsAck(tx[j]) =>
            \A i \in 1..(j - 1) : IsBinary(tx[i]) => tx[i].gen < tx[j].gen

\* a sourceChanged reply, and after it a binary frame from the new source
C6_Witness ==
    \E j, i \in DOMAIN tx :
        /\ j < i
        /\ IsText(tx[j])
        /\ StartsWith(tx[j].body, S_sourceChanged)
        /\ IsBinary(tx[i])
        /\ tx[i].conn = tx[j].conn
        /\ tx[i].gen = tx[j].gen

\* the replies to SET_SOURCE written so far
SourceReplies ==
    {i \in DOMAIN tx : /\ IsText(tx[i])
                       /\ \/ StartsWith(tx[i].body, S_sourceChanged)
                          \/ tx[i].body = S_sourceError}

\* C7: once main has handled the pending source request of an iteration, the
\* replies written to SET_SOURCE commands (sourceChanged or sourceError) are
\* as many as the SET_SOURCE commands received.
C7_OneReplyPerSetSource ==
    (pc \in {"loop", "read"}) => (Cardinality(SourceReplies) = hist.nSetSource)

\* C8: while the daemon runs, if the last thing written is a sourceError
\* reply, the capture stream is open on the current source and main has not
\* died.
C8_FailedOpenRecovers ==
    (/\ tx # <<>>
     /\ IsText(tx[Len(tx)])
     /\ tx[Len(tx)].body = S_sourceError
     /\ pc # "done") =>
        (pa = StreamOn(currentSource) /\ pc # "crashed")

\* the malformed inbound streams: a header declaring more than the cap,
\* and a whole frame cut short on a stream the peer has ended
DeclaresTooLong(rx) ==
    /\ Len(rx) >= 8
    /\ rx[2] = 254
    /\ rx[3] * 256 + rx[4] > MAX_PAYLOAD

CutShort(rx) ==
    \E m \in Commands :
        LET f == ClientFrame(1, MaskKey, m)
        IN  Len(rx) < Len(f) /\ rx = SubSeq(f, 1, Len(rx))

C9_Step ==
    (/\ PollRuns
     /\ HasClient
     /\ sockets[clientSock].rx # <<>>
     /\ \/ DeclaresTooLong(sockets[clientSock].rx)
        \/ ~sockets[clientSock].peer /\ CutShort(sockets[clientSock].rx)) =>
        /\ clientSock' = SOCK_INVALID
        /\ sockets'[clientSock].state = "closed"
        /\ listenSock' = "open"
        /\ pc' = "apply"
        /\ hist'.onTextCalls = hist.onTextCalls
        /\ tx' = tx
        /\ UNCHANGED <<cfgVars, procVars, srcVars>>

\* C9: a poll() that finds a frame declaring more than 4096 payload bytes, or
\* a frame cut short by the end of the stream, drops the subscriber and
\* returns: the callback is not invoked, nothing is written, the settings, the
\* processor and the source are untouched, and the listener stays open with
\* no subscriber, so the next poll() accepts.
C9_BadFrameDrops == [][C9_Step]_vars

\* the subscriber was dropped for a payload over the cap
C9_Witness ==
    /\ pc = "apply"
    /\ ~HasClient
    /\ hist.dropCause = "oversize"
    /\ listenSock = "open"

\* the last write to connection c
LastOn(c) ==
    LET S == {i \in DOMAIN tx : tx[i].conn = c}
    IN  tx[CHOOSE i \in S : \A j \in S : j <= i]

C10_Closed ==
    \A c \in hist.closeRecv :
        /\ clientSock # c
        /\ sockets[c].state = "closed"
        /\ LastOn(c).hdr = <<OP_CLOSE_REPLY, 0>>

C10_Step ==
    (/\ PollRuns
     /\ HasClient
     /\ HeadFrame.res = "frame"
     /\ HeadFrame.opcode = 8) =>
        /\ clientSock' = SOCK_INVALID
        /\ Len(tx') = Len(tx) + 1
        /\ tx'[Len(tx')].conn = clientSock
        /\ tx'[Len(tx')].hdr = <<OP_CLOSE_REPLY, 0>>

\* C10: a poll() that reads a Close frame writes a close frame to that
\* connection and returns with no subscriber; from then on the connection is
\* closed, is never the subscriber again, and the close frame stays the last
\* thing written to it.
C10_CloseThenDrop == []C10_Closed /\ [][C10_Step]_vars

\* a Close frame was answered after binary frames had been sent to that peer
C10_Witness ==
    \E c \in hist.closeRecv :
        \E i \in DOMAIN tx : tx[i].conn = c /\ IsBinary(tx[i])

\* the requests on which the handshake gives up: no key header, and a key
\* line that is not ended
FailingRequests == {ReqNoKey, ReqKeyOpen}

C11_Step ==
    (/\ PollRuns
     /\ ~HasClient
     /\ listenSock = "open"
     /\ AcceptedSocket # 0
     /\ \/ sockets[AcceptedSocket].rx \in FailingRequests
        \/ sockets[AcceptedSocket].rx = <<>> /\ ~sockets[AcceptedSocket].peer) =>
        /\ sockets'[AcceptedSocket].state = "closed"
        /\ clientSock' = SOCK_INVALID
        /\ tx' = tx
        /\ listenSock' = "open"
        /\ pc' = "apply"

\* C11: a poll() that accepts a connection on which nothing arrives before
\* the peer closes, or whose request has no Sec-WebSocket-Key header or a key
\* line without its CRLF, closes that socket, writes nothing (no 101), returns
\* with no subscriber and leaves the listener open.
C11_FailedHandshake == [][C11_Step]_vars

\* a first connection closed without a single write to it, and a second one
\* accepted as the subscriber afterwards
C11_Witness ==
    /\ Len(sockets) >= 2
    /\ sockets[1].state = "closed"
    /\ \A i \in DOMAIN tx : tx[i].conn # 1
    /\ clientSock = 2

\* a request without the Upgrade header or without the key header
LacksHeader(rx) ==
    StrStr(rx, S_UpgradeLine, 1) = 0 \/ StrStr(rx, S_KeyHdr, 1) = 0

C12_Step ==
    (/\ PollRuns
     /\ ~HasClient
     /\ listenSock = "open"
     /\ AcceptedSocket # 0
     /\ LacksHeader(sockets[AcceptedSocket].rx)) =>
        /\ clientSock' = SOCK_INVALID
        /\ tx' = tx

\* C12: a poll() that accepts a connection whose request lacks the
\* `Upgrade: websocket` header or the Sec-WebSocket-Key header writes no 101
\* response and returns with no subscriber.
C12_BothHeadersNeeded == [][C12_Step]_vars

\* the writes a step adds to the log
NewWrites == {i \in DOMAIN tx' : i > Len(tx)}

C13_Step ==
    (~HasClient /\ pc # "start") =>
        /\ nAudio' = nAudio
        /\ bars' = bars
        /\ UNCHANGED procVars
        /\ \A i \in NewWrites : ~IsBinary(tx'[i])
        /\ (pc = "apply" /\ pc' # "apply") => (wasIdle' /\ pc' = "loop")

\* C13: main is at the audio read only with a subscriber; and a step of the
\* running daemon that starts with no subscriber reads no audio frame, leaves
\* the processor state and the bars alone and writes no binary frame; if it is
\* the step after poll(), it sets the idle flag and goes back to poll().
C13_IdleDoesNothing == []((pc = "read") => HasClient) /\ [][C13_Step]_vars

\* the idle branch has run after a session that had read audio
C13_Witness ==
    /\ pc = "loop"
    /\ g_running
    /\ ~HasClient
    /\ wasIdle
    /\ nAudio >= 1
    /\ \A i \in DOMAIN sockets : sockets[i].state = "closed"


\* the frame rate in the last fpsChanged reply among the first i writes
\* (30 when there is none)
RECURSIVE AckedFps(_)
AckedFps(i) ==
    IF i = 0 THEN 30
    ELSE IF IsText(tx[i]) /\ StartsWith(tx[i].body, S_fpsChanged)
    THEN Atoi(Substr(tx[i].body, Len(S_fpsChanged)))
    ELSE AckedFps(i - 1)

\* main's step that reads one frame of audio and goes round the loop
ReadDone == pc = "read" /\ pc' = "loop"

NewBinary == {i \in NewWrites : IsBinary(tx'[i])}

\* the read processes exactly one frame, sent or not, and writes at most one
\* binary frame
C14_OneFrame ==
    /\ nAudio' = nAudio + 1
    /\ \E fr \in DaemonFrames :
         LET p == ProcessFrame(CurProc, fr)
         IN  /\ g_inputBuf' = p.inputBuf /\ g_mem' = p.mem /\ g_peak' = p.peak
             /\ g_fall' = p.fall /\ g_sens' = p.sens /\ g_sensInit' = p.sensInit
             /\ bars' = p.bars
    /\ Cardinality(NewBinary) <= 1

C14_Step ==
    ReadDone =>
        /\ C14_OneFrame
        /\ NewBinary # {} <=>
              hist'.elapsed \div TicksPerMs >= 1000 \div AckedFps(Len(tx))

C14_ExactStep ==
    ReadDone =>
        /\ C14_OneFrame
        /\ NewBinary # {} <=>
              hist'.elapsed * AckedFps(Len(tx)) >= 1000 * TicksPerMs

Returns == pc # "done" /\ pc' = "done"

C15_Step ==
    Returns => exitCode' = (IF pc = "loop" /\ ~g_running THEN 0 ELSE 1)

\* C15: main returns 0 only when it leaves the loop because a signal cleared
\* the run flag; it returns 1 when the bind fails, when the initial source
\* cannot be opened, and when a failed read ends the loop.
C15_ExitCodes == [][C15_Step]_vars

\* a subscriber-side error met by main: a write to the subscriber fails, or
\* recv in drainClient returns 0 or an error (the peer has closed or reset)
SubscriberError ==
    /\ HasClient
    /\ \/ \E i \in NewWrites : tx'[i].conn = clientSock /\ ~tx'[i].ok
       \/ PollRuns /\ HeadFrame.res = "drop" /\ ~sockets[clientSock].peer

C16_Step ==
    SubscriberError =>
        /\ clientSock' = SOCK_INVALID
        /\ sockets'[clientSock].state = "closed"
        /\ g_running' = g_running
        /\ pc # "apply" => pa' = pa
        /\ listenSock' = "open"
        /\ pc' \in {"apply", "loop"}

\* C16: a step of main that meets a subscriber-side error (a failed write, a
\* recv that returns 0 or an error) drops the subscriber and nothing else:
\* the run flag and the listener are as before, so is the audio stream
\* (unless the step is the one that carries out a source change), and main
\* goes on round its loop with no subscriber, where poll() accepts again.
C16_SubscriberErrorNotFatal == [][C16_Step]_vars

\* the first subscriber was dropped on a failed write, and the second one
\* has been sent a binary frame
C16_Witness ==
    \E i, j \in DOMAIN tx :
        /\ i < j
        /\ tx[i].conn = 1 /\ ~tx[i].ok
        /\ tx[j].conn = 2 /\ IsBinary(tx[j]) /\ tx[j].ok
        /\ g_running /\ pc = "loop"

\* once the run flag is false main starts no new iteration: from the head of
\* the loop its only step is the shutdown
C17_NoNewIteration ==
    [][(pc = "loop" /\ ~g_running /\ pc' # "loop") =>
          (pc' = "done" /\ nAudio' = nAudio /\ tx' = tx)]_vars

\* C17: after a signal has cleared the run flag no new iteration starts, and
\* the process eventually ends: main closes the server and the source and
\* returns (or the process has died in a read through a null stream handle).
C17_ShutdownCompletes == (~g_running) ~> (pc \in {"done", "crashed"})

\* the place of a resource in the order client socket, listener, audio source
CloseRank(r) == CASE r = "client" -> 1 [] r = "listener" -> 2 [] r = "audio" -> 3

\* C18: when main has shut down, what it closed was closed in the order
\* client socket, listener socket, audio source.
C18_CloseOrder ==
    pc = "done" =>
        \A i, j \in DOMAIN hist.closed :
            i < j => CloseRank(hist.closed[i]) < CloseRank(hist.closed[j])

\* C19: every binary frame written to a connection on which no command was
\* ever received has a payload of 72 x 4 = 288 bytes.
C19_DefaultFrameLength ==
    \A i \in DOMAIN tx :
        (IsBinary(tx[i]) /\ tx[i].conn \notin hist.commanded) => tx[i].len = 72 * 4

\* C20: after every processed frame, whatever the processor's state and the
\* frame were, every output bar is between 0 and 1.
C20_BarsInRange ==
    nAudio >= 1 => \A b \in DOMAIN bars : 0 <= bars[b] /\ bars[b] <= Q

\* a frame after which a peak is above 1.0 and its bar is exactly 1.0
C20_Witness ==
    nAudio >= 1 /\ \E b \in DOMAIN bars : g_peak[b] > Q /\ bars[b] = Q

\* the double quotes of a text that no backslash precedes
UnescapedQuotes(s) ==
    Cardinality({i \in DOMAIN s : s[i] = 34 /\ (i = 1 \/ s[i - 1] # 92)})

\* how many times needle occurs in s
Occurrences(s, needle) ==
    Cardinality({i \in 1..(Len(s) - Len(needle) + 1) :
                    SubSeq(s, i, i + Len(needle) - 1) = needle})

IsSourcesReply(e) == IsText(e) /\ StartsWith(e.body, S_sourcesOpen)
IsSourceChanged(e) == IsText(e) /\ StartsWith(e.body, S_sourceChanged)

\* the source list: its only unescaped quotes are those of the key "sources"
\* and the eight around the keys and values of each item
C21_SourcesEscaped ==
    \A i \in DOMAIN tx :
        IsSourcesReply(tx[i]) =>
            UnescapedQuotes(tx[i].body) = 2 + 8 * Occurrences(tx[i].body, S_nameOpen)

\* C21: in every JSON text frame sent, the double quotes inside a source
\* name or description are escaped: the only unescaped quotes of a source
\* list and of a sourceChanged reply are those of the JSON syntax (four in
\* {"sourceChanged":"..."}).
C21_QuotesEscaped ==
    /\ C21_SourcesEscaped
    /\ \A i \in DOMAIN tx :
         IsSourceChanged(tx[i]) => UnescapedQuotes(tx[i].body) = 4

C23_HandleOpenAtRead == (pc = "read") => (pa # NullHandle)

\* main's step after poll(): the source-change block and what follows it
ApplyRuns == pc = "apply" /\ pc' # "apply"

C24_Step ==
    /\ (sourceChangeRequested' /\ ~sourceChangeRequested) =>
          (PollRuns /\ pc' = "apply" /\ hist'.nSetSource = hist.nSetSource + 1)
    /\ (ApplyRuns /\ sourceChangeRequested) =>
          /\ ~sourceChangeRequested'
          /\ currentSource' \in {pendingSource, currentSource}
          /\ pa' \in {StreamOn(currentSource'), NullHandle}
          /\ nAudio' = nAudio
    /\ (pa' # pa \/ currentSource' # currentSource) =>
          \/ pc = "start"
          \/ pc' = "done"
          \/ ApplyRuns /\ sourceChangeRequested /\ pendingSource # currentSource

\* C24: a SET_SOURCE request is captured only inside poll() and is pending
\* only until the source-change block of the same iteration, which clears
\* the flag and applies the pending name at most once, before the read; the
\* stream and the current source change nowhere else in the loop, so never
\* during a read.
C24_RequestConsumed ==
    /\ [](sourceChangeRequested => pc = "apply")
    /\ [][C24_Step]_vars

\* a request for the source a" has been applied and main is at the read
C24_Witness ==
    /\ pc = "read"
    /\ hist.nSetSource = 1
    /\ currentSource = S_a
    /\ pa = StreamOn(S_a)
    /\ ~sourceChangeRequested

\* the length of the masked frame with a short payload at the head of a stream
FirstFrameLen(rx) == 2 + 4 + (rx[2] % 128)

\* the bodies of the text frames written, in the order of their writing
RECURSIVE TextBodies(_)
TextBodies(i) ==
    IF i = 0 THEN <<>>
    ELSE TextBodies(i - 1) \o (IF IsText(tx[i]) THEN <<tx[i].body>> ELSE <<>>)

\* the acknowledgments of the script's commands, in the script's order
ScriptAcks ==
    << S_fpsChanged \o <<54, 48, 125>>,
       S_barCountChanged \o <<49, 54, 125>>,
       S_fpsChanged \o <<50, 52, 125>> >>

C25_Step ==
    (PollRuns /\ HasClient /\ sockets[clientSock].rx # <<>>) =>
        /\ hist'.onTextCalls <= hist.onTextCalls + 1
        /\ Cardinality(NewWrites) <= 1
        /\ HasClient' =>
             sockets'[clientSock].rx =
                Substr(sockets[clientSock].rx, FirstFrameLen(sockets[clientSock].rx))

\* C25: a poll() with a subscriber takes exactly the first queued frame off
\* the stream, calls onText at most once and writes at most one reply; the
\* frames behind it stay queued, and the commands are acknowledged in the
\* order of their arrival.
C25_OneFramePerPoll ==
    /\ [][C25_Step]_vars
    /\ [](\E n \in 0..Len(ScriptAcks) : TextBodies(Len(tx)) = SubSeq(ScriptAcks, 1, n))

\* three frames were queued at one moment, and all the commands of the script
\* sent have been acknowledged
C25_Witness ==
    /\ peerSends >= 3
    /\ hist.onTextCalls = 2
    /\ TextBodies(Len(tx)) = SubSeq(ScriptAcks, 1, 2)
    /\ HasClient
    /\ sockets[clientSock].rx = <<>>

C26_Step ==
    /\ \A i \in NewWrites :
         IsText(tx'[i]) =>
            /\ HasClient
            /\ tx'[i].conn = clientSock
            /\ \/ PollRuns /\ HeadFrame.res = "frame" /\ HeadFrame.opcode = 1
               \/ ApplyRuns /\ sourceChangeRequested
    /\ (sourceChangeRequested' /\ ~sourceChangeRequested) =>
          (HasClient /\ clientSock' = clientSock
           /\ HeadFrame.res = "frame" /\ HeadFrame.opcode = 1)
    /\ (pc = "apply" /\ pc' = "apply") => clientSock' = clientSock

\* C26: a JSON reply is written only to the subscriber whose command it
\* answers: an acknowledgment or a source list in the poll() that takes the
\* command off that subscriber's stream, the reply to a source change in the
\* block that follows that poll(), with the same subscriber still connected.
C26_ReplyToIssuer ==
    /\ [](sourceChangeRequested => HasClient)
    /\ [][C26_Step]_vars

\* the first session was answered, the second one sent nothing and has been
\* sent a binary frame and no reply
C26_Witness ==
    /\ \E i \in DOMAIN tx : tx[i].conn = 1 /\ IsText(tx[i])
    /\ \E j \in DOMAIN tx : tx[j].conn = 2 /\ IsBinary(tx[j])
    /\ \A j \in DOMAIN tx : tx[j].conn = 2 => ~IsText(tx[j])
    /\ 2 \notin hist.commanded

\* the subscriber's head frame is a SET_FREQ_MAX or SET_BAR_COUNT command
\* whose number is in its set
AcceptedReconfig ==
    /\ HasClient
    /\ HeadFrame.res = "frame"
    /\ HeadFrame.opcode = 1
    /\ LET msg == HeadFrame.payload
       IN  \/ StartsWith(msg, S_SET_FREQ_MAX) /\ Atoi(Substr(msg, 13)) \in FreqMaxSet
           \/ StartsWith(msg, S_SET_BAR_COUNT) /\ Atoi(Substr(msg, 14)) \in BarCountSet

C27_Step ==
    (PollRuns /\ AcceptedReconfig) =>
        /\ \A b \in DOMAIN g_mem' : g_mem'[b] = 0
        /\ \A b \in DOMAIN g_peak' : g_peak'[b] = 0
        /\ \A b \in DOMAIN g_fall' : g_fall'[b] = 0
        /\ g_sens' = Q
        /\ g_sensInit'

\* C27: the poll() that handles an accepted SET_FREQ_MAX or SET_BAR_COUNT
\* leaves mem, peak and fall at 0 for every bar, sens at 1.0 and the ramp-up
\* flag set, whatever they were.
C27_ReconfigResets == [][C27_Step]_vars

\* a reconfiguration has just been acknowledged, after audio that had moved
\* the processor, and the processor is in its initial state
C27_Witness ==
    /\ pc = "apply"
    /\ nAudio >= 1
    /\ tx # <<>>
    /\ IsAck(tx[Len(tx)])
    /\ tx[Len(tx)].gen = hist.nReconf
    /\ ~StartsWith(tx[Len(tx)].body, S_sourceChanged)
    /\ \A b \in DOMAIN g_mem : g_mem[b] = 0 /\ g_peak[b] = 0 /\ g_fall[b] = 0
    /\ g_sens = Q
    /\ g_sensInit

\* the frame a processFrame step has just taken in: its sample level, whether
\* it is silence, and whether a peak went over 1.0
FrameAmp == Abs(g_inputBuf'[Len(g_inputBuf')][1])
FrameSilent == FrameAmp < SILENCE_THRESHOLD
FrameOvershoot == \E b \in DOMAIN g_peak' : g_peak'[b] > Q
FrameProcessed == nAudio' = nAudio + 1

\* sens after the growth rule, before the clamp
GrownSens ==
    IF FrameOvershoot THEN Mul(g_sens, SENS_ATTACK)
    ELSE IF FrameSilent THEN g_sens
    ELSE IF g_sensInit THEN Mul(Mul(g_sens, SENS_RELEASE), SENS_INIT_BOOST)
    ELSE Mul(g_sens, SENS_RELEASE)

\* C28: after every processed frame sens is what the growth rule gives,
\* clamped to [0.02, 20]: never outside the interval, and unchanged by the
\* clamp when the rule's value is inside it.
C28_SensClamp ==
    [][FrameProcessed => g_sens' = Max(20, Min(20 * Q, GrownSens))]_vars

\* sens after a growth rule whose 1.1x ramp needs the flag, no overshoot and
\* a sample level above 0.005
GatedGrownSens ==
    IF FrameOvershoot THEN Mul(g_sens, SENS_ATTACK)
    ELSE IF FrameSilent THEN g_sens
    ELSE IF g_sensInit /\ FrameAmp > 500
         THEN Mul(Mul(g_sens, SENS_RELEASE), SENS_INIT_BOOST)
    ELSE Mul(g_sens, SENS_RELEASE)

C30_SilenceNoGrowth ==
    [][FrameProcessed /\ FrameSilent => g_sens' <= g_sens]_vars

\* a silent frame has been processed during the ramp-up phase, with sens
\* below its upper limit
C30_Witness ==
    /\ nAudio >= 1
    /\ Abs(g_inputBuf[Len(g_inputBuf)][1]) < SILENCE_THRESHOLD
    /\ g_sensInit
    /\ g_sens < SENS_MAX

\* C31: in a frame where some bar's gravity peak exceeds 1, sens is
\* multiplied by 0.98 and nothing else before it is clamped, and the ramp-up
\* flag is cleared.
C31_OvershootAttack ==
    [][FrameProcessed /\ FrameOvershoot =>
          /\ g_sens' = Max(SENS_MIN, Min(SENS_MAX, Mul(g_sens, 980)))
          /\ ~g_sensInit']_vars

\* rawBars[b] of the frame the step processes
RawBar(b) == Mul(hist'.frame.mag[b], g_sens)

\* C32: smoothing has instant attack and exponential decay: a bar whose raw
\* value is above its memory takes the raw value in that same frame, and
\* any other bar's memory becomes 0.77 times what it was.
C32_InstantAttack ==
    [][FrameProcessed =>
          \A b \in DOMAIN g_mem :
              g_mem'[b] = IF RawBar(b) > g_mem[b] THEN RawBar(b)
                          ELSE Mul(g_mem[b], 770)]_vars

\* C33: after the smoothing step of a frame no bar's memory is above both
\* the bar's raw value of the frame and the memory it had before the frame.
C33_SmoothingDominance ==
    [][FrameProcessed =>
          \A b \in DOMAIN g_mem : g_mem'[b] <= Max(RawBar(b), g_mem[b])]_vars

\* C34: after the gravity step of a frame every bar's peak is at least its
\* memory and at least 0, and the fall velocity is 0 for every bar whose
\* memory reached or exceeded the peak it had before the frame.
C34_GravityBounded ==
    [][FrameProcessed =>
          \A b \in DOMAIN g_mem :
              /\ g_peak'[b] >= g_mem'[b]
              /\ g_peak'[b] >= 0
              /\ (g_mem'[b] >= g_peak[b] => g_fall'[b] = 0)]_vars

\* a frame has been processed in which a falling peak was stopped at the
\* bar's memory
C34_Witness ==
    /\ nAudio >= 1
    /\ \E b \in DOMAIN g_mem :
         g_fall[b] > 0 /\ g_peak[b] = g_mem[b] /\ g_mem[b] > 0

\* C35: bars cannot lock up.  Under silent input every bar's output is
\* non-increasing from frame to frame once the window holds only zeros, and
\* from the state a fresh processor reaches after 10 frames of a
\* 0.5-amplitude tone every bar is at or below 0.05 after 60 silent frames,
\* and so stays there.
C35_NoLockup ==
    /\ [][FrameProcessed /\ g_inputBuf' = ZeroWindow =>
             \A b \in DOMAIN bars : bars'[b] <= bars[b]]_vars
    /\ [](nAudio >= ToneFrames + SilentFrames =>
             \A b \in DOMAIN bars : bars[b] <= 50)

\* the tone has ended, the window has drained, and a bar is still above 0.5
C35_Witness ==
    /\ nAudio > ToneFrames
    /\ g_inputBuf = ZeroWindow
    /\ \E b \in DOMAIN bars : bars[b] > 500

\* the cutoff tables for n bars and the ceiling f give every bar a range of
\* bins within 1 .. FFT_SIZE/2 - 1 that starts above the range of the bar
\* before it
CutoffsOrdered(n, f) ==
    \A r \in {BinRanges(n, f)} :
        \A b \in 1..n :
          /\ 1 <= r.lo[b]
          /\ r.lo[b] <= r.hi[b]
          /\ r.hi[b] <= FFT_SIZE \div 2 - 1
          /\ b > 1 => r.lo[b] >= r.lo[b - 1] + 1 /\ r.hi[b - 1] < r.lo[b]

\* a command has made the daemon run initProcessor
Reconfigured == hist'.nReconf # hist.nReconf

\* C36: for every accepted bar count and frequency ceiling, 144 bars under
\* 10000 Hz included, the cutoff construction gives every bar
\* 1 <= lo <= hi <= FFT_SIZE/2 - 1, lo at least one above the lo of the bar
\* before and above that bar's hi: the ranges are disjoint and no bar is
\* without a bin.
C36_CutoffsDisjoint ==
    [][Reconfigured => CutoffsOrdered(g_barCount', g_freqMax')]_vars

\* the processor has been set to 144 bars under 10000 Hz, and the second
\* cutoff is where the push put it
C36_Witness ==
    /\ g_barCount = 144
    /\ g_freqMax = 10000
    /\ hist.nReconf >= 2
    /\ CutAt(1, 144, LogOf(FREQ_MIN), LogOf(10000))
          = CutAt(0, 144, LogOf(FREQ_MIN), LogOf(10000))
    /\ g_binLo[2] = g_binLo[1] + 1

\* sample i (from 1) of a window
RECURSIVE SampleAt(_, _)
SampleAt(buf, i) ==
    IF i <= buf[1][2] THEN buf[1][1] ELSE SampleAt(Tail(buf), i - buf[1][2])

\* C37: after a processed frame the last FRAME_SAMPLES samples of the window
\* are the frame just delivered and the samples before them are the last
\* FFT_SIZE - FRAME_SAMPLES samples of the window before, in their order:
\* the window has moved left by one frame.
C37_WindowShift ==
    [][FrameProcessed =>
          /\ \A i \in 1..FRAME_SAMPLES :
               SampleAt(g_inputBuf', FFT_SIZE - FRAME_SAMPLES + i) = hist'.frame.amp
          /\ \A i \in 1..(FFT_SIZE - FRAME_SAMPLES) :
               SampleAt(g_inputBuf', i) = SampleAt(g_inputBuf, i + FRAME_SAMPLES)]_vars

\* silence has followed the tone and the window holds samples of both
C37_Witness ==
    /\ nAudio > ToneFrames
    /\ Len(g_inputBuf) = 2
    /\ g_inputBuf[1][1] # 0
    /\ g_inputBuf[2] = <<0, (nAudio - ToneFrames) * FRAME_SAMPLES>>

\* the step in which the callback runs on the command the subscriber has
\* written
Handles(text) ==
    /\ HasClient
    /\ sockets[clientSock].rx = ClientFrame(1, MaskKey, text)
    /\ hist'.onTextCalls = hist.onTextCalls + 1

\* the callback run once more on text, in the state the step leaves, would
\* leave the settings and the processor as they are
AgainNothing(text) ==
    /\ OnText(text, <<>>)'.barCount = g_barCount'
    /\ OnText(text, <<>>)'.freqMax = g_freqMax'
    /\ OnText(text, <<>>)'.interval = sendIntervalMs'
    /\ InitProcessor(g_barCount)' = CurProc'

C38_Step ==
    \A k \in BarCountArgs :
        Handles(S_SET_BAR_COUNT \o StdToString(k)) =>
            /\ g_barCount' = k
            /\ CurProc' = InitProcessor(k)
            /\ UNCHANGED <<g_freqMax, sendIntervalMs>>
            /\ AgainNothing(S_SET_BAR_COUNT \o StdToString(k))

\* C38: SET_BAR_COUNT:k applied a second time, with no audio frame since
\* the first, leaves the bar count, the processor state with sens and the
\* ramp-up flag, and the emission interval as the first application left
\* them.
C38_BarCountIdempotent == [][C38_Step]_vars

\* the callback has just set 8 bars on a processor that had processed audio
\* and had been reconfigured before
C38_Witness ==
    /\ pc = "apply"
    /\ hist.nReconf = 2
    /\ nAudio >= 2
    /\ g_barCount = 8
    /\ CurProc = InitProcessor(8)

\* ---------------------------------------------------------------------------
\* sendFrame alone: a server whose subscriber has just been accepted writes
\* frames whose payload lengths span the three header forms and the range of
\* a size_t
\* ---------------------------------------------------------------------------
FrameCalls == 2

\* payload lengths as size_t: around 126 and 65536, up to 2^32 - 1, and from
\* 2^32 on
PayloadLengths ==
    {SizeT(n) : n \in {0, 1, 125, 126, 127, 4096, 65535, 65536, 65537,
                       16777216, 2147483647}}
    \cup {<<0, 0, 0, 0, 255, 255, 255, 255>>, <<0, 0, 0, 1, 0, 0, 0, 0>>,
          <<0, 0, 0, 1, 0, 0, 0, 72>>, <<255, 255, 255, 255, 255, 255, 255, 255>>}

FrameInit ==
    /\ pc = "loop"
    /\ g_running = TRUE
    /\ exitCode = -1
    /\ listenSock = "open"
    /\ clientSock = 1
    /\ \E peer \in BOOLEAN :
         sockets = <<[state |-> "accepted", rx |-> <<>>, peer |-> peer]>>
    /\ peerSends = 0
    /\ tx = <<TxUpgrade(1, S_key, TRUE, 0)>>
    /\ currentSource = S_DEFAULT_MONITOR
    /\ sourceChangeRequested = FALSE
    /\ pendingSource = <<>>
    /\ sendIntervalMs = DEFAULT_INTERVAL
    /\ g_barCount = InitialBarCount
    /\ g_freqMax = InitialFreqMax
    /\ pa = StreamOn(S_DEFAULT_MONITOR)
    /\ wasIdle = TRUE
    /\ sinceSend = 0
    /\ bars = ZeroBars(BAR_COUNT)
    /\ g_inputBuf = InitProcessor(BAR_COUNT).inputBuf
    /\ g_mem = InitProcessor(BAR_COUNT).mem
    /\ g_peak = InitProcessor(BAR_COUNT).peak
    /\ g_fall = InitProcessor(BAR_COUNT).fall
    /\ g_sens = InitProcessor(BAR_COUNT).sens
    /\ g_sensInit = InitProcessor(BAR_COUNT).sensInit
    /\ nAudio = 0
    /\ hist = [flushed |-> FALSE, inited |-> FALSE, nReconf |-> 0,
               onTextCalls |-> 0, nSetSource |-> 0, closeRecv |-> {},
               dropCause |-> "none", elapsed |-> 0, closed |-> <<>>,
               commanded |-> {}, frame |-> NoFrame]

\* sendFrame(opcode, data, len): nothing without a subscriber; the header and
\* the payload go out through sendAll, and a failed write drops the
\* subscriber.  The log keeps the len of the call; the payload is left out.
SendFrame(opcode, len) ==
    /\ HasClient
    /\ \E ok \in SendOutcomes(clientSock) :
         /\ tx' = Append(tx, [conn |-> clientSock, kind |-> "frame",
                              hdr |-> SendFrameHeader(opcode, len), len |-> len,
                              body |-> <<>>, ok |-> ok, gen |-> hist.nReconf])
         /\ IF ok THEN UNCHANGED <<clientSock, sockets>> ELSE DropClient
    /\ UNCHANGED <<pc, g_running, exitCode, peerSends, procVars, cfgVars, srcVars,
                   listenSock, loopVars, hist>>

FrameSend ==
    /\ Len(tx) <= FrameCalls
    /\ \E opcode \in {OP_TEXT, OP_BINARY}, len \in PayloadLengths :
         SendFrame(opcode, len)

FrameNext == FrameSend

FrameSpec == FrameInit /\ [][FrameNext]_vars

\* the frames sendFrame wrote
FramesWritten == {i \in DOMAIN tx : tx[i].kind = "frame"}

RoundTripBelow2p32 ==
    \A i \in FramesWritten :
        LET len == tx[i].len
            hdr == tx[i].hdr
        IN  /\ (Len(hdr) = 2 /\ hdr[2] < 126) <=> Below126(len)
            /\ (Len(hdr) = 10 /\ hdr[2] = 127) <=> ~Below65536(len)
            /\ SubSeq(len, 1, 4) = <<0, 0, 0, 0>> => PayLen(hdr) = len

\* ---------------------------------------------------------------------------
\* Arguments: one subscriber sends SET_FPS, SET_FREQ_MAX and SET_BAR_COUNT
\* commands whose argument is a number followed by other characters, or holds
\* no leading number
\* ---------------------------------------------------------------------------
ParseSends == 2
ParseAudio == 3

\* 'xyz' and '.5'
S_xyz == <<120, 121, 122>>
S_dot5 == <<46, 53>>

ArgSuffixes == {S_xyz, S_dot5}

\* the three numeric commands, each with an accepted value that differs from
\* the setting at start, and the opening of its acknowledgement
NumericCommands ==
    {[cmd |-> S_SET_FPS, arg |-> 60, ack |-> S_fpsChanged],
     [cmd |-> S_SET_FREQ_MAX, arg |-> 10000, ack |-> S_freqMaxChanged],
     [cmd |-> S_SET_BAR_COUNT, arg |-> 16, ack |-> S_barCountChanged]}

\* arguments with no leading number: 'xyz', nothing, 'xyz' and then the number
NoNumberArgs(c) == {S_xyz, <<>>, S_xyz \o StdToString(c.arg)}

ParseTexts ==
    {c.cmd \o StdToString(c.arg) \o x : c \in NumericCommands, x \in ArgSuffixes}
    \cup UNION {{c.cmd \o a : a \in NoNumberArgs(c)} : c \in NumericCommands}

ParseRead == ReadStep(FrameTicks, ParseAudio)

ParseSend == SendCommand(ParseTexts, ParseSends)

ParseNext ==
    \/ Startup
    \/ LoopPoll
    \/ ApplyAndGate
    \/ ParseRead
    \/ PaceConnect
    \/ ParseSend
    \/ PeerClose

ParseSpec == Init /\ [][ParseNext]_vars

\* the step does to the settings, the processor and the log what the callback
\* does on plain, and that is: the command is accepted and acknowledged
AppliedLike(c, plain) ==
    LET e == OnText(plain, <<>>)
    IN  /\ e.reply = <<c.ack \o StdToString(c.arg) \o <<125>>>>
        /\ e.interval = IF c.cmd = S_SET_FPS THEN 1000 \div c.arg ELSE sendIntervalMs
        /\ e.freqMax = IF c.cmd = S_SET_FREQ_MAX THEN c.arg ELSE g_freqMax
        /\ e.barCount = IF c.cmd = S_SET_BAR_COUNT THEN c.arg ELSE g_barCount
        /\ sendIntervalMs' = e.interval
        /\ g_freqMax' = e.freqMax
        /\ g_barCount' = e.barCount
        /\ CurProc' = IF e.reinit THEN InitProcessor(e.barCount) ELSE CurProc
        /\ UNCHANGED <<pendingSource, sourceChangeRequested>>
        /\ Len(tx') = Len(tx) + 1
        /\ IsText(tx'[Len(tx')])
        /\ tx'[Len(tx')].body = e.reply[1]
        /\ tx'[Len(tx')].len = Len(e.reply[1])

C40_Step ==
    \A c \in NumericCommands :
        /\ \A x \in ArgSuffixes :
             Handles(c.cmd \o StdToString(c.arg) \o x)
                 => AppliedLike(c, c.cmd \o StdToString(c.arg))
        /\ \A a \in NoNumberArgs(c) :
             Handles(c.cmd \o a)
                 => /\ Atoi(a) = 0
                    /\ UNCHANGED <<cfgVars, procVars, srcVars, tx>>

\* C40: a SET_FPS, SET_FREQ_MAX or SET_BAR_COUNT command whose argument is
\* an accepted number followed by other characters is applied and
\* acknowledged exactly as the command with the number alone; an argument
\* with no leading number parses as 0 and the command changes nothing and is
\* not answered.
C40_LeadingPrefix == [][C40_Step]_vars

\* SET_FPS:60 and SET_BAR_COUNT:16, each followed by other characters, have
\* been applied, and the count was acknowledged last
C40_Witness ==
    /\ hist.onTextCalls = 2
    /\ sendIntervalMs = 16
    /\ g_barCount = 16
    /\ tx # <<>>
    /\ IsText(tx[Len(tx)])
    /\ tx[Len(tx)].body = S_barCountChanged \o <<49, 54, 125>>

=============================================================================
